---------------------------- MODULE Spec2Model ----------------------------
(***************************************************************************)
(* State-machine models of BusTub components.                              *)
(*                                                                         *)
(* Lock manager (src/src/concurrency/lock_manager.cpp, lock_manager.h).    *)
(* Threads: one per transaction, plus the cycle-detection thread.          *)
(* A lock call is cut where another thread can interleave:                 *)
(*   - the entry checks and the look-up of the queue under latch_,         *)
(*   - the critical section under the queue mutex up to the evaluation of  *)
(*     the wait predicate,                                                 *)
(*   - the atomic release-and-sleep of condition_variable::wait,           *)
(*   - the wake-up and the re-evaluation of the predicate under the mutex. *)
(* The detector holds only latch_, never a queue mutex, so its steps       *)
(* interleave with every step of a critical section.  Its unsynchronised   *)
(* reads of the queues are modelled as reads of a snapshot.                *)
(*                                                                         *)
(* Buffer pool manager and LRU replacer (src/src/buffer).  Every operation *)
(* runs under the pool latch (the replacer under its mutex) and is one     *)
(* step.                                                                   *)
(*                                                                         *)
(* B+ tree index (src/src/storage/index, src/src/storage/page), called by  *)
(* one thread at a time: each call is one step over the content of the     *)
(* tree's pages.  Called by several threads, a call is cut at the read of  *)
(* root_page_id_ and at every page latch of the descent; the work on the   *)
(* latched leaf up to the release of the latches is one step.              *)
(*                                                                         *)
(* Each component has its own specification; a step of one leaves the      *)
(* variables of the others unchanged.                                      *)
(***************************************************************************)
EXTENDS Integers, Sequences, FiniteSets, TLC

\* Bounds of the model.
NumTxns == 3
NumRids == 2
\* Lock calls of one transaction that get past the entry checks to a queue, in
\* the workload with the most calls.
MaxCalls == 3

Txns == 1..NumTxns
Rids == 1..NumRids
\* Vertices of the waits-for graph: transaction ids (the graph API takes any id).
Vertices == 1..(NumTxns + 1)

IsolationLevels == {"READ_UNCOMMITTED", "READ_COMMITTED", "REPEATABLE_READ"}

VARIABLES
  scope,               \* the transactions and the rids of the workload
  iso,                 \* Transaction::isolation_level_
  state,               \* Transaction::state_
  shared_lock_set,     \* Transaction::shared_lock_set_
  exclusive_lock_set,  \* Transaction::exclusive_lock_set_
  request_queue,       \* lock_table_[rid].request_queue_
  upgrading,           \* lock_table_[rid].upgrading_
  pc,                  \* where each transaction's thread is inside a lock call
  abort_reason,        \* reason of the TransactionAbortException thrown to each transaction
  calls,               \* number of lock calls of each transaction that reached a queue
  waits_for,           \* waits_for_
  dpc,                 \* where the detector thread is
  cycle_result         \* out-parameter and return value of the last HasCycle call

VARIABLES
  pages_,              \* BufferPoolManager::pages_: page_id_, pin_count_, is_dirty_, data
  page_table_,         \* BufferPoolManager::page_table_
  free_list_,          \* BufferPoolManager::free_list_
  lis_,                \* LRUReplacer::lis_ (mp_ indexes its elements)
  cap_,                \* LRUReplacer::cap_
  disk,                \* the pages stored by the DiskManager
  next_page_id,        \* the next page id DiskManager::AllocatePage hands out
  ret,                 \* the last call of the pool or the replacer and what it returned
  dirty_data,          \* history: the data of each page at its last unpin with is_dirty
  entry_time,          \* history: when each frame entered the replacer (0: not in it)
  clock                \* history: number of entries into the replacer so far

bpmVars == <<pages_, page_table_, free_list_, lis_, cap_, disk, next_page_id, ret,
             dirty_data, entry_time, clock>>

VARIABLES
  tree_pages,          \* the content of the pages holding the tree's nodes
  tree_next_page_id,   \* the page id the next NewPage of the tree gets
  root_page_id_,       \* BPlusTree::root_page_id_
  leaf_max_size_,      \* BPlusTree::leaf_max_size_
  internal_max_size_,  \* BPlusTree::internal_max_size_
  tree_ret,            \* the last call of the tree and what it returned
  tree_calls,          \* number of Insert and Remove calls so far
  tree_scope,          \* the keys, values and number of calls of the workload
  index_map            \* history: the map from keys to values the calls describe

\* The threads that call the tree concurrently.
VARIABLES
  threads,             \* each thread's call, its position in it and the latches it holds
  start_tree,          \* history: the tree when the threads started
  pin_count,           \* Page::pin_count_ of each page of the tree
  iterator             \* the IndexIterator, its leaf and slot, and the read latch it was built on

treeVars == <<tree_pages, tree_next_page_id, root_page_id_, leaf_max_size_,
              internal_max_size_, tree_ret, tree_calls, tree_scope, index_map,
              threads, start_tree, pin_count, iterator>>

\* What no step of the lock manager changes: its workload and the other components.
fixed == <<scope, bpmVars, treeVars>>

vars == <<scope, iso, state, shared_lock_set, exclusive_lock_set, request_queue,
          upgrading, pc, abort_reason, calls, waits_for, dpc, cycle_result>>

txnVars == <<fixed, iso, state, shared_lock_set, exclusive_lock_set, request_queue,
             upgrading, pc, abort_reason, calls, dpc>>

---------------------------------------------------------------------------
\* Helpers.

Max(S) == CHOOSE x \in S : \A y \in S : y <= x
Min(S) == CHOOSE x \in S : \A y \in S : x <= y

RECURSIVE Ascending(_)
\* The elements of a std::set in iteration order.
Ascending(S) == IF S = {} THEN <<>> ELSE <<Min(S)>> \o Ascending(S \ {Min(S)})

Idle == [at |-> "idle", op |-> "none", rid |-> 0]
At(a, o, r) == [at |-> a, op |-> o, rid |-> r]

LockRequest(t, m) == [txn_id_ |-> t, lock_mode_ |-> m, granted_ |-> FALSE]

\* std::find_if over the queue: position of the first request of t, 0 for end().
FindRequest(q, t) ==
  IF \E i \in 1..Len(q) : q[i].txn_id_ = t
  THEN Min({i \in 1..Len(q) : q[i].txn_id_ = t})
  ELSE 0

\* std::list::erase(iter).
Erase(q, i) == [j \in 1..(Len(q) - 1) |-> IF j < i THEN q[j] ELSE q[j + 1]]

\* The queue mutex is held between steps only by a thread that has evaluated
\* the wait predicate to false and has not yet gone to sleep.
MutexFree(r) == \A t \in Txns : ~(pc[t].at = "checked" /\ pc[t].rid = r)

\* latch_ is held between steps only by the detector.
LatchFree == dpc = "sleep"

---------------------------------------------------------------------------
\* LockManager::CanGrantLock (lock_manager.h).

CanGrantLock_IgnoreWaitingX(q, mode, t) ==
  IF Head(q).txn_id_ = t THEN TRUE
  ELSE IF mode = "SHARED"
       THEN \A i \in 1..Len(q) : ~(q[i].lock_mode_ = "EXCLUSIVE" /\ q[i].granted_)
       ELSE FALSE

CanGrantLock(q, mode, t) ==
  IF Head(q).txn_id_ = t THEN TRUE
  ELSE IF mode = "SHARED"
       THEN \A i \in 1..Len(q) : q[i].lock_mode_ # "EXCLUSIVE"
       ELSE FALSE

\* cv_.notify_all(): every thread asleep on the queue of a rid in rs wakes.
NotifyAll(p, rs) ==
  [t \in Txns |-> IF p[t].at = "asleep" /\ p[t].rid \in rs
                  THEN At("woken", p[t].op, p[t].rid) ELSE p[t]]

---------------------------------------------------------------------------
\* The tail shared by LockShared, LockExclusive and LockUpgrade: cv_.wait with
\* the predicate CanGrantLock || ABORTED, evaluated under the queue mutex on
\* the queue q (upgrading flag upg), then the abort check and the grant.

\* LockRead asks for its lock through LockShared (lines 222, 227).
LockMode(op) == IF op \in {"LockShared", "LockRead"} THEN "SHARED" ELSE "EXCLUSIVE"

\* The request a call works on: the element it emplaced (the last one of t),
\* or for an upgrade the element std::find_if returns (the first one of t).
OwnRequest(q, t, op) ==
  IF op = "LockUpgrade" THEN FindRequest(q, t)
  ELSE Max({i \in 1..Len(q) : q[i].txn_id_ = t})

WaitPredicate(q, op, t) == CanGrantLock(q, LockMode(op), t) \/ state[t] = "ABORTED"

Granted(q, i) == [q EXCEPT ![i].granted_ = TRUE]

WaitAndGrant(t, r, op, q, upg) ==
  IF ~WaitPredicate(q, op, t)
  THEN \* the predicate is false: the thread is about to sleep, mutex still held
       /\ pc' = [pc EXCEPT ![t] = At("checked", op, r)]
       /\ request_queue' = [request_queue EXCEPT ![r] = q]
       /\ upgrading' = [upgrading EXCEPT ![r] = upg]
       /\ UNCHANGED <<state, shared_lock_set, exclusive_lock_set, abort_reason>>
  ELSE IF state[t] = "ABORTED"
  THEN \* throw TransactionAbortException(DEADLOCK); the request stays queued
       /\ pc' = [pc EXCEPT ![t] = Idle]
       /\ abort_reason' = [abort_reason EXCEPT ![t] = "DEADLOCK"]
       /\ request_queue' = [request_queue EXCEPT ![r] = q]
       /\ upgrading' = [upgrading EXCEPT ![r] = upg]
       /\ UNCHANGED <<state, shared_lock_set, exclusive_lock_set>>
  ELSE \* the call returns; LockRead at READ_COMMITTED goes on to Unlock (line 223)
       /\ pc' = [pc EXCEPT ![t] = IF op = "LockRead" /\ iso[t] = "READ_COMMITTED"
                                   THEN At("returned", op, r) ELSE Idle]
       /\ request_queue' = [request_queue EXCEPT ![r] = Granted(q, OwnRequest(q, t, op))]
       /\ upgrading' = [upgrading EXCEPT ![r] = IF op = "LockUpgrade" THEN FALSE ELSE upg]
       /\ shared_lock_set' =
            [shared_lock_set EXCEPT ![t] =
               IF LockMode(op) = "SHARED" /\ r \notin exclusive_lock_set[t] THEN @ \cup {r}
               ELSE IF op = "LockUpgrade" THEN @ \ {r}
               ELSE @]
       /\ exclusive_lock_set' =
            [exclusive_lock_set EXCEPT ![t] = IF LockMode(op) = "SHARED" THEN @ ELSE @ \cup {r}]
       /\ UNCHANGED <<state, abort_reason>>

\* throw TransactionAbortException(reason) from the entry checks.
AbortCall(t, reason) ==
  /\ state' = [state EXCEPT ![t] = "ABORTED"]
  /\ abort_reason' = [abort_reason EXCEPT ![t] = reason]
  /\ UNCHANGED <<shared_lock_set, exclusive_lock_set, request_queue, upgrading, pc, calls>>

\* return true from the entry checks.
ReturnTrue(t) ==
  UNCHANGED <<state, shared_lock_set, exclusive_lock_set, request_queue, upgrading, pc,
              abort_reason, calls>>

\* latch_.lock(); lock_table_[rid]; latch_.unlock(): the call now waits for
\* the queue mutex.
LookUpQueue(t, r, op) ==
  /\ LatchFree
  /\ calls[t] < scope.calls
  /\ calls' = [calls EXCEPT ![t] = @ + 1]
  /\ pc' = [pc EXCEPT ![t] = At("mutex", op, r)]
  /\ UNCHANGED <<state, shared_lock_set, exclusive_lock_set, request_queue, upgrading,
                 abort_reason>>

\* A transaction is between calls and has neither committed nor aborted: the
\* callers stop using a transaction once a call has thrown.
Running(t) == pc[t] = Idle /\ state[t] \in {"GROWING", "SHRINKING"}

---------------------------------------------------------------------------
\* The entry of LockShared, LockExclusive and LockUpgrade.  The checks on the
\* transaction's state come first and are taken for every rid; past them the
\* calls are those of the callers' protocol (lock_manager.h:74-80, 101).

\* LockShared without the READ_UNCOMMITTED check.
LockShared_NoReadUncommittedCheck(t, r) ==
  /\ Running(t)
  /\ IF iso[t] = "REPEATABLE_READ" /\ state[t] = "SHRINKING"
     THEN AbortCall(t, "LOCK_ON_SHRINKING")
     ELSE IF r \in shared_lock_set[t] \/ r \in exclusive_lock_set[t]
     THEN ReturnTrue(t)
     ELSE LookUpQueue(t, r, "LockShared")
  /\ UNCHANGED <<fixed, iso, waits_for, dpc, cycle_result>>

\* LockShared without the held-lock shortcut.
LockShared_NoHeldCheck(t, r) ==
  /\ Running(t)
  /\ IF iso[t] = "READ_UNCOMMITTED"
     THEN AbortCall(t, "LOCKSHARED_ON_READ_UNCOMMITTED")
     ELSE IF iso[t] = "REPEATABLE_READ" /\ state[t] = "SHRINKING"
     THEN AbortCall(t, "LOCK_ON_SHRINKING")
     ELSE LookUpQueue(t, r, "LockShared")
  /\ UNCHANGED <<fixed, iso, waits_for, dpc, cycle_result>>

\* LockManager::LockShared, lines 28-57: entry checks and queue look-up.
LockShared(t, r) ==
  /\ Running(t)
  /\ IF iso[t] = "READ_UNCOMMITTED"
     THEN AbortCall(t, "LOCKSHARED_ON_READ_UNCOMMITTED")
     ELSE IF iso[t] = "REPEATABLE_READ" /\ state[t] = "SHRINKING"
     THEN AbortCall(t, "LOCK_ON_SHRINKING")
     ELSE IF r \in shared_lock_set[t] \/ r \in exclusive_lock_set[t]
     THEN ReturnTrue(t)
     ELSE LookUpQueue(t, r, "LockShared")
  /\ UNCHANGED <<fixed, iso, waits_for, dpc, cycle_result>>

\* LockExclusive without the SHRINKING check.
LockExclusive_NoShrinkingCheck(t, r) ==
  /\ Running(t)
  /\ IF r \in exclusive_lock_set[t]
     THEN ReturnTrue(t)
     ELSE r \notin shared_lock_set[t] /\ LookUpQueue(t, r, "LockExclusive")
  /\ UNCHANGED <<fixed, iso, waits_for, dpc, cycle_result>>

\* LockManager::LockExclusive, lines 86-99.  A caller that holds the rid in
\* shared mode upgrades instead (LockWrite, lines 232-240).
LockExclusive(t, r) ==
  /\ Running(t)
  /\ IF state[t] = "SHRINKING"
     THEN AbortCall(t, "LOCK_ON_SHRINKING")
     ELSE IF r \in exclusive_lock_set[t]
     THEN ReturnTrue(t)
     ELSE r \notin shared_lock_set[t] /\ LookUpQueue(t, r, "LockExclusive")
  /\ UNCHANGED <<fixed, iso, waits_for, dpc, cycle_result>>

\* LockManager::LockUpgrade, lines 121-134.  Past the checks the rid is
\* locked in shared mode by the caller (lock_manager.h:101).
LockUpgrade(t, r) ==
  /\ Running(t)
  /\ IF state[t] = "SHRINKING"
     THEN AbortCall(t, "LOCK_ON_SHRINKING")
     ELSE IF r \in exclusive_lock_set[t]
     THEN ReturnTrue(t)
     ELSE r \in shared_lock_set[t] /\ LookUpQueue(t, r, "LockUpgrade")
  /\ UNCHANGED <<fixed, iso, waits_for, dpc, cycle_result>>

\* The critical section of LockUpgrade without the test of upgrading_.
Enqueue_NoUpgradeConflict(t) ==
  LET r == pc[t].rid
      op == pc[t].op
      q == request_queue[r]
  IN /\ pc[t].at = "mutex"
     /\ MutexFree(r)
     /\ IF op = "LockUpgrade"
        THEN WaitAndGrant(t, r, op,
               [q EXCEPT ![FindRequest(q, t)] =
                  [@ EXCEPT !.lock_mode_ = "EXCLUSIVE", !.granted_ = FALSE]],
               TRUE)
        ELSE WaitAndGrant(t, r, op, Append(q, LockRequest(t, LockMode(op))), upgrading[r])
     /\ UNCHANGED <<fixed, iso, calls, waits_for, dpc, cycle_result>>

\* The critical section that follows: lines 59-83, 101-118, 136-166, up to the
\* first evaluation of the wait predicate (and the grant when it is true).
Enqueue(t) ==
  LET r == pc[t].rid
      op == pc[t].op
      q == request_queue[r]
  IN /\ pc[t].at = "mutex"
     /\ MutexFree(r)
     /\ IF op = "LockUpgrade"
        THEN IF upgrading[r]
             THEN /\ state' = [state EXCEPT ![t] = "ABORTED"]
                  /\ abort_reason' = [abort_reason EXCEPT ![t] = "UPGRADE_CONFLICT"]
                  /\ pc' = [pc EXCEPT ![t] = Idle]
                  /\ UNCHANGED <<shared_lock_set, exclusive_lock_set, request_queue,
                                 upgrading>>
             ELSE WaitAndGrant(t, r, op,
                    [q EXCEPT ![FindRequest(q, t)] =
                       [@ EXCEPT !.lock_mode_ = "EXCLUSIVE", !.granted_ = FALSE]],
                    TRUE)
        ELSE WaitAndGrant(t, r, op, Append(q, LockRequest(t, LockMode(op))), upgrading[r])
     /\ UNCHANGED <<fixed, iso, calls, waits_for, dpc, cycle_result>>

\* condition_variable::wait releases the mutex and blocks, atomically.
Sleep(t) ==
  /\ pc[t].at = "checked"
  /\ pc' = [pc EXCEPT ![t] = At("asleep", pc[t].op, pc[t].rid)]
  /\ UNCHANGED <<fixed, iso, state, shared_lock_set, exclusive_lock_set, request_queue,
                 upgrading, abort_reason, calls, waits_for, dpc, cycle_result>>

\* condition_variable::wait may return without a notification.
SpuriousWake(t) ==
  /\ pc[t].at = "asleep"
  /\ pc' = [pc EXCEPT ![t] = At("woken", pc[t].op, pc[t].rid)]
  /\ UNCHANGED <<fixed, iso, state, shared_lock_set, exclusive_lock_set, request_queue,
                 upgrading, abort_reason, calls, waits_for, dpc, cycle_result>>

\* A woken thread re-acquires the mutex and evaluates the predicate again.
Recheck(t) ==
  /\ pc[t].at = "woken"
  /\ MutexFree(pc[t].rid)
  /\ WaitAndGrant(t, pc[t].rid, pc[t].op, request_queue[pc[t].rid], upgrading[pc[t].rid])
  /\ UNCHANGED <<fixed, iso, calls, waits_for, dpc, cycle_result>>

---------------------------------------------------------------------------
\* LockManager::Unlock, lines 169-211.  The caller holds a lock on the rid
\* (lock_manager.h:108); the assert of line 196 is the guard on FindRequest.

\* Line 201-204: whether the request after the erased one is notified.
NotifiesNext(q, i) ==
  /\ i <= Len(q)
  /\ ~q[i].granted_
  /\ CanGrantLock(q, q[i].lock_mode_, q[i].txn_id_)

\* The transition of lines 171-176 taken at every isolation level.
UnlockState_AnyLevel(t) ==
  IF state[t] = "GROWING" THEN "SHRINKING" ELSE state[t]

\* Lines 171-176.
UnlockState(t) ==
  IF iso[t] = "REPEATABLE_READ" /\ state[t] = "GROWING" THEN "SHRINKING" ELSE state[t]

Unlock(t, r) ==
  LET q == request_queue[r]
      i == FindRequest(q, t)
      q2 == Erase(q, i)
  IN /\ pc[t] = Idle
     /\ r \in shared_lock_set[t] \cup exclusive_lock_set[t]
     /\ LatchFree
     /\ MutexFree(r)
     /\ i # 0
     /\ state' = [state EXCEPT ![t] = UnlockState(t)]
     /\ request_queue' = [request_queue EXCEPT ![r] = q2]
     /\ pc' = IF NotifiesNext(q2, i) THEN NotifyAll(pc, {r}) ELSE pc
     /\ shared_lock_set' = [shared_lock_set EXCEPT ![t] = @ \ {r}]
     /\ exclusive_lock_set' = [exclusive_lock_set EXCEPT ![t] = @ \ {r}]
     /\ UNCHANGED <<fixed, iso, upgrading, abort_reason, calls, waits_for, dpc, cycle_result>>

---------------------------------------------------------------------------
\* LockManager::LockRead, lines 213-230: nothing at READ_UNCOMMITTED,
\* LockShared then Unlock at READ_COMMITTED, LockShared at REPEATABLE_READ.

\* The entry of LockRead: the switch of line 215 and the entry checks of the
\* LockShared it calls (lines 28-57).  When LockShared returns at once at
\* READ_COMMITTED (lines 51-53) the call stands before the Unlock of line 223.
LockRead(t, r) ==
  /\ Running(t)
  /\ IF iso[t] = "READ_UNCOMMITTED"
     THEN ReturnTrue(t)
     ELSE IF iso[t] = "REPEATABLE_READ" /\ state[t] = "SHRINKING"
     THEN AbortCall(t, "LOCK_ON_SHRINKING")
     ELSE IF r \in shared_lock_set[t] \/ r \in exclusive_lock_set[t]
     THEN IF iso[t] = "READ_COMMITTED"
          THEN /\ pc' = [pc EXCEPT ![t] = At("returned", "LockRead", r)]
               /\ UNCHANGED <<state, shared_lock_set, exclusive_lock_set, request_queue,
                              upgrading, abort_reason, calls>>
          ELSE ReturnTrue(t)
     ELSE LookUpQueue(t, r, "LockRead")
  /\ UNCHANGED <<fixed, iso, waits_for, dpc, cycle_result>>

\* Line 223: the Unlock of LockRead at READ_COMMITTED (lines 169-211), after
\* which LockRead returns.
ReadUnlock(t) ==
  LET r == pc[t].rid
      q == request_queue[r]
      i == FindRequest(q, t)
      q2 == Erase(q, i)
      returned == [pc EXCEPT ![t] = Idle]
  IN /\ pc[t].at = "returned"
     /\ LatchFree
     /\ MutexFree(r)
     /\ i # 0
     /\ state' = [state EXCEPT ![t] = UnlockState(t)]
     /\ request_queue' = [request_queue EXCEPT ![r] = q2]
     /\ pc' = IF NotifiesNext(q2, i) THEN NotifyAll(returned, {r}) ELSE returned
     /\ shared_lock_set' = [shared_lock_set EXCEPT ![t] = @ \ {r}]
     /\ exclusive_lock_set' = [exclusive_lock_set EXCEPT ![t] = @ \ {r}]
     /\ UNCHANGED <<fixed, iso, upgrading, abort_reason, calls, waits_for, dpc, cycle_result>>

---------------------------------------------------------------------------
\* Waits-for graph: AddEdge, RemoveEdge, HasCycle, DFSCheckCycle.

NoResult == [found |-> FALSE, txn_id |-> 0]

AddEdge(t1, t2) ==
  /\ waits_for' = [waits_for EXCEPT ![t1] = @ \cup {t2}]
  /\ cycle_result' = NoResult
  /\ UNCHANGED txnVars

RemoveEdge(t1, t2) ==
  /\ waits_for' = [waits_for EXCEPT ![t1] = @ \ {t2}]
  /\ cycle_result' = NoResult
  /\ UNCHANGED txnVars

RECURSIVE DFSCheckCycle(_, _, _, _)
\* Lines 262-283, as the loop over the out-edges tos of the current vertex
\* (ascending).  visited is the DFS path without its start; the result carries
\* muilt_graph_visited back to the caller.
DFSCheckCycle(wf, tos, visited, muilt_graph_visited) ==
  IF tos = <<>>
  THEN [found |-> FALSE, txn_id |-> 0, muilt |-> muilt_graph_visited]
  ELSE LET to_txn_id == Head(tos) IN
       IF to_txn_id \in visited
       THEN [found |-> TRUE, txn_id |-> Max(visited), muilt |-> muilt_graph_visited]
       ELSE LET sub == DFSCheckCycle(wf, Ascending(wf[to_txn_id]),
                                     visited \cup {to_txn_id},
                                     muilt_graph_visited \cup {to_txn_id})
            IN IF sub.found THEN sub
               ELSE DFSCheckCycle(wf, Tail(tos), visited, sub.muilt)

RECURSIVE HasCycleFrom(_, _, _)
\* Lines 250-259: the loop over the keys of waits_for_ (ascending).
HasCycleFrom(wf, starts, muilt_graph_visited) ==
  IF starts = <<>> THEN NoResult
  ELSE IF Head(starts) \in muilt_graph_visited
       THEN HasCycleFrom(wf, Tail(starts), muilt_graph_visited)
       ELSE LET r == DFSCheckCycle(wf, Ascending(wf[Head(starts)]), {},
                                   muilt_graph_visited)
            IN IF r.found THEN [found |-> TRUE, txn_id |-> r.txn_id]
               ELSE HasCycleFrom(wf, Tail(starts), r.muilt)

\* Lines 246-260.
HasCycle(wf) == HasCycleFrom(wf, Ascending(DOMAIN wf), {})

\* The graph API call has_cycle(&txn_id).
HasCycleCall ==
  /\ cycle_result' = HasCycle(waits_for)
  /\ UNCHANGED waits_for
  /\ UNCHANGED txnVars

---------------------------------------------------------------------------
\* The detector thread: RebuildWaitsForGraph and RunCycleDetection.

NotAborted(st, t) == st[t] # "ABORTED"

\* Lines 296-321: an edge from every waiting to every granted request of the
\* same queue, requests of aborted transactions ignored.
RebuildWaitsForGraph(queues, st) ==
  [v \in Vertices |->
     {g \in Txns :
        /\ v \in Txns
        /\ \E r \in Rids : \E i, j \in 1..Len(queues[r]) :
             /\ queues[r][i].txn_id_ = v /\ ~queues[r][i].granted_
             /\ queues[r][j].txn_id_ = g /\ queues[r][j].granted_
             /\ NotAborted(st, v) /\ NotAborted(st, g)}]

\* Lines 328-334: the detector takes latch_ and builds the graph.
DetectorAcquire ==
  /\ dpc = "sleep"
  /\ dpc' = "loop"
  /\ waits_for' = RebuildWaitsForGraph(request_queue, state)
  /\ UNCHANGED <<fixed, iso, state, shared_lock_set, exclusive_lock_set, request_queue,
                 upgrading, pc, abort_reason, calls, cycle_result>>

\* Lines 343-351: the queues the detector notifies for victim v.
NotifiedRids(v) ==
  UNION {shared_lock_set[w] \cup exclusive_lock_set[w] : w \in waits_for[v] \cap Txns}

\* Lines 337-354: one iteration of the while loop with HasCycle true.
DetectorBreakCycle ==
  LET h == HasCycle(waits_for) IN
  /\ dpc = "loop"
  /\ h.found
  /\ h.txn_id \in Txns
  /\ state' = [state EXCEPT ![h.txn_id] = "ABORTED"]
  /\ pc' = NotifyAll(pc, NotifiedRids(h.txn_id))
  /\ waits_for' = RebuildWaitsForGraph(request_queue, state')
  /\ UNCHANGED <<fixed, iso, shared_lock_set, exclusive_lock_set, request_queue, upgrading,
                 abort_reason, calls, dpc, cycle_result>>

\* Lines 337, 355: HasCycle is false, the pass ends and latch_ is released.
DetectorRelease ==
  /\ dpc = "loop"
  /\ ~HasCycle(waits_for).found
  /\ dpc' = "sleep"
  /\ UNCHANGED <<fixed, iso, state, shared_lock_set, exclusive_lock_set, request_queue,
                 upgrading, pc, abort_reason, calls, waits_for, cycle_result>>

---------------------------------------------------------------------------
\* LRU replacer (src/src/buffer/lru_replacer.cpp).

\* Bounds of the buffer pool model.
PoolSize == 2
\* Page ids the disk hands out.
MaxPages == 3
\* Pins held on one page at a time.
MaxPin == 2
\* Distinct page contents besides the zeroed page.
MaxData == 1
\* Entries into the replacer in the replacer's own specification.
MaxClock == 4

INVALID_PAGE_ID == -1
NoFrame == -1
NoData == -1

Frames == 0..(PoolSize - 1)
\* Frame ids passed to the replacer on its own (it accepts any id).
ReplacerFrames == 0..PoolSize
PageIds == 0..(MaxPages - 1)
Data == 0..MaxData

Elems(l) == {l[i] : i \in 1..Len(l)}

Remove(l, f) == SelectSeq(l, LAMBDA x : x # f)

\* LRUReplacer::Victim taking the front of lis_.
ReplacerVictim_Front(l) ==
  IF l # <<>>
  THEN [ok |-> TRUE, frame_id |-> Head(l), lis |-> Tail(l)]
  ELSE [ok |-> FALSE, frame_id |-> NoFrame, lis |-> l]

\* LRUReplacer::Victim, lines 21-31: the back of lis_.
ReplacerVictim(l) ==
  IF l # <<>>
  THEN [ok |-> TRUE, frame_id |-> l[Len(l)], lis |-> SubSeq(l, 1, Len(l) - 1)]
  ELSE [ok |-> FALSE, frame_id |-> NoFrame, lis |-> l]

\* LRUReplacer::Pin that leaves lis_ alone.
ReplacerPin_Nothing(l, f) == l

\* LRUReplacer::Pin, lines 33-40.
ReplacerPin(l, f) == IF f \in Elems(l) THEN Remove(l, f) ELSE l

\* LRUReplacer::Unpin, lines 42-49: push_front when absent and below capacity.
ReplacerUnpin(l, c, f) ==
  IF Len(l) < c /\ f \notin Elems(l) THEN <<f>> \o l ELSE l

\* LRUReplacer::Size, line 51.
Size(l) == Cardinality(Elems(l))

---------------------------------------------------------------------------
\* Buffer pool manager (src/src/buffer/buffer_pool_manager.cpp).

Page(p, n, d, c) == [page_id_ |-> p, pin_count_ |-> n, is_dirty_ |-> d, data |-> c]

\* The call that returned last, whether it returned true (a page, a frame), and
\* the frame id Victim stored.
Return(op, ok) == [op |-> op, ok |-> ok, frame_id |-> NoFrame]

\* Lines 198-202.
ResetPageMetadata(page) ==
  [page EXCEPT !.page_id_ = INVALID_PAGE_ID, !.is_dirty_ = FALSE, !.pin_count_ = 0]

\* An erase that leaves the page table as it is.
TableErase_Nothing(pt, p) == pt

\* page_table_.erase(p).
TableErase(pt, p) == [q \in DOMAIN pt \ {p} |-> pt[q]]

\* page_table_[p] = f.
TableSet(pt, p, f) == [q \in DOMAIN pt \cup {p} |-> IF q = p THEN f ELSE pt[q]]

\* DiskManager::WritePage.
WritePage(dk, p, d) == [dk EXCEPT ![p] = d]

\* AllocateFrame that does not write a dirty victim back.
AllocateFrame_NoWriteBack(fl, l, pg, pt, dk) ==
  IF fl = <<>>
  THEN LET v == ReplacerVictim(l) IN
       IF ~v.ok
       THEN [ok |-> FALSE, frame_id |-> NoFrame, free_list |-> fl, lis |-> l,
             pages |-> pg, page_table |-> pt, disk |-> dk]
       ELSE [ok |-> TRUE, frame_id |-> v.frame_id, free_list |-> fl, lis |-> v.lis,
             pages |-> [pg EXCEPT ![v.frame_id] = ResetPageMetadata(@)],
             page_table |-> TableErase(pt, pg[v.frame_id].page_id_),
             disk |-> dk]
  ELSE [ok |-> TRUE, frame_id |-> Head(fl), free_list |-> Tail(fl), lis |-> l,
        pages |-> [pg EXCEPT ![Head(fl)] = ResetPageMetadata(@)],
        page_table |-> pt, disk |-> dk]

\* Lines 160-177: the free list first, else a victim of the replacer, written
\* back when dirty and unmapped.
AllocateFrame(fl, l, pg, pt, dk) ==
  IF fl = <<>>
  THEN LET v == ReplacerVictim(l) IN
       IF ~v.ok
       THEN [ok |-> FALSE, frame_id |-> NoFrame, free_list |-> fl, lis |-> l,
             pages |-> pg, page_table |-> pt, disk |-> dk]
       ELSE LET victim_page == pg[v.frame_id] IN
            [ok |-> TRUE, frame_id |-> v.frame_id, free_list |-> fl, lis |-> v.lis,
             pages |-> [pg EXCEPT ![v.frame_id] = ResetPageMetadata(@)],
             page_table |-> TableErase(pt, victim_page.page_id_),
             disk |-> IF victim_page.is_dirty_
                      THEN WritePage(dk, victim_page.page_id_, victim_page.data)
                      ELSE dk]
  ELSE [ok |-> TRUE, frame_id |-> Head(fl), free_list |-> Tail(fl), lis |-> l,
        pages |-> [pg EXCEPT ![Head(fl)] = ResetPageMetadata(@)],
        page_table |-> pt, disk |-> dk]

\* Lines 179-185.
PinPageByFrameId(pg, l, f) ==
  [pages |-> [pg EXCEPT ![f].pin_count_ = @ + 1],
   lis |-> IF pg[f].pin_count_ = 0 THEN ReplacerPin(l, f) ELSE l]

\* Lines 187-196.
UnpinPageByFrameId(pg, l, c, f) ==
  IF pg[f].pin_count_ <= 0
  THEN [ok |-> FALSE, pages |-> pg, lis |-> l]
  ELSE [ok |-> TRUE,
        pages |-> [pg EXCEPT ![f].pin_count_ = @ - 1],
        lis |-> IF pg[f].pin_count_ = 1 THEN ReplacerUnpin(l, c, f) ELSE l]

\* What a step of the pool leaves alone.
poolFrame == <<vars, treeVars, cap_, entry_time, clock>>

\* Callers name pages the disk has handed out.
Allocated(p) == p \in PageIds /\ p < next_page_id

\* FetchPageImpl, lines 37-70.
FetchPage(p) ==
  /\ Allocated(p)
  /\ IF p \in DOMAIN page_table_
     THEN LET f == page_table_[p]
              pin == PinPageByFrameId(pages_, lis_, f)
          IN /\ pages_[f].pin_count_ < MaxPin
             /\ pages_' = pin.pages
             /\ lis_' = pin.lis
             /\ ret' = Return("FetchPage", TRUE)
             /\ UNCHANGED <<page_table_, free_list_, disk>>
     ELSE LET a == AllocateFrame(free_list_, lis_, pages_, page_table_, disk) IN
          IF ~a.ok
          THEN /\ ret' = Return("FetchPage", FALSE)
               /\ UNCHANGED <<pages_, page_table_, free_list_, lis_, disk>>
          ELSE LET f == a.frame_id
                   read == [a.pages EXCEPT ![f].data = a.disk[p], ![f].page_id_ = p]
                   pin == PinPageByFrameId(read, a.lis, f)
               IN /\ pages_' = pin.pages
                  /\ lis_' = pin.lis
                  /\ page_table_' = TableSet(a.page_table, p, f)
                  /\ free_list_' = a.free_list
                  /\ disk' = a.disk
                  /\ ret' = Return("FetchPage", TRUE)
  /\ UNCHANGED <<next_page_id, dirty_data, poolFrame>>

\* UnpinPageImpl, lines 72-84.  A caller that unpins with is_dirty has
\* written the data d into the page while it held the pin.
UnpinPage(p, is_dirty, d) ==
  /\ Allocated(p)
  /\ IF p \notin DOMAIN page_table_
     THEN /\ ret' = Return("UnpinPage", FALSE)
          /\ UNCHANGED <<pages_, lis_, dirty_data>>
     ELSE LET f == page_table_[p]
              held == pages_[f].pin_count_ > 0
              written == IF is_dirty /\ held THEN [pages_ EXCEPT ![f].data = d] ELSE pages_
              marked == [written EXCEPT ![f].is_dirty_ = @ \/ is_dirty]
              unpin == UnpinPageByFrameId(marked, lis_, cap_, f)
          IN /\ pages_' = unpin.pages
             /\ lis_' = unpin.lis
             /\ ret' = Return("UnpinPage", unpin.ok)
             /\ dirty_data' = IF is_dirty /\ held THEN [dirty_data EXCEPT ![p] = d]
                              ELSE dirty_data
  /\ UNCHANGED <<page_table_, free_list_, disk, next_page_id, poolFrame>>

\* FlushPageImpl, lines 86-99.
FlushPage(p) ==
  /\ Allocated(p)
  /\ IF p \notin DOMAIN page_table_
     THEN /\ ret' = Return("FlushPage", FALSE)
          /\ UNCHANGED <<pages_, disk>>
     ELSE LET f == page_table_[p] IN
          /\ disk' = WritePage(disk, p, pages_[f].data)
          /\ pages_' = [pages_ EXCEPT ![f].is_dirty_ = FALSE]
          /\ ret' = Return("FlushPage", TRUE)
  /\ UNCHANGED <<page_table_, free_list_, lis_, next_page_id, dirty_data, poolFrame>>

\* NewPageImpl asking the disk for a page id before it has a frame.
NewPage_AllocatePageFirst ==
  LET a == AllocateFrame(free_list_, lis_, pages_, page_table_, disk) IN
  /\ next_page_id < MaxPages
  /\ next_page_id' = next_page_id + 1
  /\ IF ~a.ok
     THEN /\ ret' = Return("NewPage", FALSE)
          /\ UNCHANGED <<pages_, page_table_, free_list_, lis_, disk, dirty_data>>
     ELSE LET f == a.frame_id
              p == next_page_id
              zeroed == [a.pages EXCEPT ![f].data = 0, ![f].page_id_ = p]
              pin == PinPageByFrameId(zeroed, a.lis, f)
          IN /\ pages_' = pin.pages
             /\ lis_' = pin.lis
             /\ page_table_' = TableSet(a.page_table, p, f)
             /\ free_list_' = a.free_list
             /\ disk' = a.disk
             /\ dirty_data' = [dirty_data EXCEPT ![p] = NoData]
             /\ ret' = Return("NewPage", TRUE)
  /\ UNCHANGED poolFrame

\* NewPageImpl, lines 101-122.
NewPage ==
  LET a == AllocateFrame(free_list_, lis_, pages_, page_table_, disk) IN
  /\ next_page_id < MaxPages
  /\ IF ~a.ok
     THEN /\ ret' = Return("NewPage", FALSE)
          /\ UNCHANGED <<pages_, page_table_, free_list_, lis_, disk, next_page_id,
                         dirty_data>>
     ELSE LET f == a.frame_id
              p == next_page_id
              zeroed == [a.pages EXCEPT ![f].data = 0, ![f].page_id_ = p]
              pin == PinPageByFrameId(zeroed, a.lis, f)
          IN /\ next_page_id' = next_page_id + 1
             /\ pages_' = pin.pages
             /\ lis_' = pin.lis
             /\ page_table_' = TableSet(a.page_table, p, f)
             /\ free_list_' = a.free_list
             /\ disk' = a.disk
             /\ dirty_data' = [dirty_data EXCEPT ![p] = NoData]
             /\ ret' = Return("NewPage", TRUE)
  /\ UNCHANGED poolFrame

\* DeletePageImpl, lines 124-149.
DeletePage(p) ==
  /\ Allocated(p)
  /\ IF p \notin DOMAIN page_table_
     THEN /\ ret' = Return("DeletePage", TRUE)
          /\ UNCHANGED <<pages_, page_table_, free_list_, dirty_data>>
     ELSE LET f == page_table_[p] IN
          IF pages_[f].pin_count_ # 0
          THEN /\ ret' = Return("DeletePage", FALSE)
               /\ UNCHANGED <<pages_, page_table_, free_list_, dirty_data>>
          ELSE /\ pages_' = [pages_ EXCEPT ![f] = ResetPageMetadata(@)]
               /\ page_table_' = TableErase(page_table_, p)
               /\ free_list_' = Append(free_list_, f)
               /\ dirty_data' = [dirty_data EXCEPT ![p] = NoData]
               /\ ret' = Return("DeletePage", TRUE)
  /\ UNCHANGED <<lis_, disk, next_page_id, poolFrame>>

RECURSIVE FlushEach(_, _, _)
\* The loop of lines 154-157 over the entries ps of the page table.
FlushEach(ps, pg, dk) ==
  IF ps = {} THEN [pages |-> pg, disk |-> dk]
  ELSE LET p == CHOOSE q \in ps : TRUE
           f == page_table_[p]
       IN FlushEach(ps \ {p}, [pg EXCEPT ![f].is_dirty_ = FALSE], WritePage(dk, p, pg[f].data))

\* FlushAllPagesImpl, lines 151-158.
FlushAllPages ==
  LET r == FlushEach(DOMAIN page_table_, pages_, disk) IN
  /\ pages_' = r.pages
  /\ disk' = r.disk
  /\ ret' = Return("FlushAllPages", TRUE)
  /\ UNCHANGED <<page_table_, free_list_, lis_, next_page_id, dirty_data, poolFrame>>

\* BufferPoolManager::BufferPoolManager, lines 20-30, on an empty disk whose
\* pages read as zeros.
InitBufferPool ==
  /\ pages_ = [f \in Frames |-> Page(INVALID_PAGE_ID, 0, FALSE, 0)]
  /\ page_table_ = <<>>
  /\ free_list_ = [i \in 1..PoolSize |-> i - 1]
  /\ lis_ = <<>>
  /\ cap_ = PoolSize
  /\ disk = [p \in PageIds |-> 0]
  /\ next_page_id = 0
  /\ ret = Return("none", TRUE)
  /\ dirty_data = [p \in PageIds |-> NoData]
  /\ entry_time = [f \in ReplacerFrames |-> 0]
  /\ clock = 0

---------------------------------------------------------------------------
\* The replacer called on its own.

replacerFrame == <<vars, treeVars, pages_, page_table_, free_list_, cap_, disk, next_page_id,
                   dirty_data>>

Victim ==
  LET v == ReplacerVictim(lis_) IN
  /\ lis_' = v.lis
  /\ ret' = [Return("Victim", v.ok) EXCEPT !.frame_id = v.frame_id]
  /\ entry_time' = [f \in ReplacerFrames |-> IF f \in Elems(lis_') THEN entry_time[f] ELSE 0]
  /\ UNCHANGED <<clock, replacerFrame>>

Pin(f) ==
  /\ lis_' = ReplacerPin(lis_, f)
  /\ ret' = Return("Pin", TRUE)
  /\ entry_time' = [g \in ReplacerFrames |-> IF g \in Elems(lis_') THEN entry_time[g] ELSE 0]
  /\ UNCHANGED <<clock, replacerFrame>>

Unpin(f) ==
  /\ clock < MaxClock
  /\ lis_' = ReplacerUnpin(lis_, cap_, f)
  /\ ret' = Return("Unpin", TRUE)
  /\ clock' = IF f \in Elems(lis_') \ Elems(lis_) THEN clock + 1 ELSE clock
  /\ entry_time' = [g \in ReplacerFrames |->
                      IF g \in Elems(lis_') \ Elems(lis_) THEN clock + 1
                      ELSE IF g \in Elems(lis_') THEN entry_time[g] ELSE 0]
  /\ UNCHANGED replacerFrame

---------------------------------------------------------------------------
\* The B+ tree index (src/storage/index/b_plus_tree.cpp) and its two node
\* layouts (src/storage/page/b_plus_tree_leaf_page.cpp and
\* b_plus_tree_internal_page.cpp), called by one thread at a time.  A node is
\* the content of one page: its header fields and its array of slots.  A slot
\* keeps what was last written to it: the moves of the node operations copy
\* slots and change size_, they never clear the slots left behind, and a new
\* page starts as zeros.  The pool is taken to be large enough for every fetch
\* to succeed.

MaxKey == 4
MaxValue == 2
MaxNodeSize == 4
MaxTreePages == 6
MaxTreeCalls == 6

Keys == 0..MaxKey
\* Record ids stored in the leaves.
Values == 1..MaxValue
\* The leaf_max_size and internal_max_size the tree is built with.
NodeSizes == 3..MaxNodeSize
\* Page 0 is the header page; the tree's nodes are the pages after it.
TreePageIds == 1..MaxTreePages
Slots == 0..(MaxNodeSize - 1)
NoValue == 0

ZeroSlot == [first |-> 0, second |-> 0]
\* A page the tree has not initialised: zeros.
ZeroNode ==
  [page_type |-> "INVALID_INDEX_PAGE", size_ |-> 0, max_size_ |-> 0,
   parent_page_id_ |-> 0, next_page_id_ |-> 0, array |-> [i \in Slots |-> ZeroSlot]]

IsLeafPage(n) == n.page_type = "LEAF_PAGE"
IsRootPage(n) == n.parent_page_id_ = INVALID_PAGE_ID
GetMinSize(n) == (n.max_size_ + 1) \div 2

\* std::move(src + from, src + to, dst + pos): slots from..to-1 of src copied
\* to dst from pos on; dst may be src when pos <= from.
Move(dst, pos, src, from, to) ==
  [i \in Slots |-> IF pos <= i /\ i < pos + (to - from) THEN src[from + (i - pos)] ELSE dst[i]]

\* std::move_backward(a + from, a + to, a + to + 1): slots from..to-1 shifted
\* one place to the right.
MoveBackward(a, from, to) ==
  [i \in Slots |-> IF from < i /\ i <= to THEN a[i - 1] ELSE a[i]]

\* The loop of both BiSearch functions: the first index in l..r-1 whose key is
\* not below the key searched, r when there is none.
RECURSIVE BiSearchLoop(_, _, _, _)
BiSearchLoop(a, l, r, key) ==
  IF l < r
  THEN LET mid == (l + r) \div 2 IN
       IF a[mid].first >= key THEN BiSearchLoop(a, l, mid, key)
       ELSE BiSearchLoop(a, mid + 1, r, key)
  ELSE l

\* ---- leaf page ----

LeafInit(page, parent_id, max_size) ==
  [page EXCEPT !.page_type = "LEAF_PAGE", !.size_ = 0, !.max_size_ = max_size,
               !.parent_page_id_ = parent_id, !.next_page_id_ = INVALID_PAGE_ID]

LeafBiSearch(n, key) == BiSearchLoop(n.array, 0, n.size_, key)

\* Insert without the test for a key the leaf holds.
LeafInsert_NoDuplicateTest(n, key, value) ==
  LET id == LeafBiSearch(n, key) IN
  [n EXCEPT !.array = [MoveBackward(n.array, id, n.size_) EXCEPT
                         ![id] = [first |-> key, second |-> value]],
            !.size_ = @ + 1]

\* The duplicate test reads array[id] for any id up to size_, the slot past the
\* last entry included.
LeafInsert(n, key, value) ==
  LET id == LeafBiSearch(n, key) IN
  IF n.size_ > 0 /\ n.array[id].first = key THEN n
  ELSE [n EXCEPT !.array = [MoveBackward(n.array, id, n.size_) EXCEPT
                              ![id] = [first |-> key, second |-> value]],
                 !.size_ = @ + 1]

\* [found, value]
LeafLookup(n, key) ==
  LET id == LeafBiSearch(n, key) IN
  IF id >= n.size_ \/ n.array[id].first # key THEN [found |-> FALSE, value |-> NoValue]
  ELSE [found |-> TRUE, value |-> n.array[id].second]

RemoveAndDeleteRecord(n, key) ==
  LET id == LeafBiSearch(n, key) IN
  IF id >= n.size_ \/ n.array[id].first # key THEN n
  ELSE [n EXCEPT !.array = Move(n.array, id, n.array, id + 1, n.size_), !.size_ = @ - 1]

\* ---- internal page ----

InternalInit(page, parent_id, max_size) ==
  [page EXCEPT !.page_type = "INTERNAL_PAGE", !.size_ = 0, !.max_size_ = max_size,
               !.parent_page_id_ = parent_id]

ValueIndex(n, value) ==
  LET at == {i \in 0..(n.size_ - 1) : n.array[i].second = value} IN
  IF at = {} THEN n.size_ ELSE CHOOSE i \in at : \A j \in at : i <= j

InternalBiSearch(n, key) == BiSearchLoop(n.array, 1, n.size_, key)

InternalLookup(n, key) ==
  LET id == InternalBiSearch(n, key) IN
  IF id >= n.size_ \/ n.array[id].first > key THEN n.array[id - 1].second
  ELSE n.array[id].second

\* PopulateNewRoot that puts the new node left of the old one.
PopulateNewRoot_Swapped(n, old_value, new_key, new_value) ==
  [n EXCEPT !.array = [@ EXCEPT ![0] = [@ EXCEPT !.second = new_value],
                                ![1] = [first |-> new_key, second |-> old_value]],
            !.size_ = 2]

PopulateNewRoot(n, old_value, new_key, new_value) ==
  [n EXCEPT !.array = [@ EXCEPT ![0] = [@ EXCEPT !.second = old_value],
                                ![1] = [first |-> new_key, second |-> new_value]],
            !.size_ = 2]

InsertNodeAfter(n, old_value, new_key, new_value) ==
  LET id == ValueIndex(n, old_value) + 1 IN
  [n EXCEPT !.array = [MoveBackward(n.array, id, n.size_) EXCEPT
                         ![id] = [first |-> new_key, second |-> new_value]],
            !.size_ = @ + 1]

InternalRemove(n, index) ==
  [n EXCEPT !.array = Move(n.array, index, n.array, index + 1, n.size_), !.size_ = @ - 1]

\* BatchChangeChildParentId: the children in slots start..end-1 of the node at
\* page id get it as their parent.
BatchChangeChildParentId(pages, id, start, end) ==
  LET children == {pages[id].array[i].second : i \in start..(end - 1)} IN
  [p \in TreePageIds |->
     IF p \in children THEN [pages[p] EXCEPT !.parent_page_id_ = id] ELSE pages[p]]

\* MoveHalfTo that keeps one entry and moves the rest.
LeafMoveHalfTo_KeepOne(node, recipient, recipient_id) ==
  LET moved == node.max_size_ - 1 IN
  [node |-> [node EXCEPT !.size_ = @ - moved, !.next_page_id_ = recipient_id],
   recipient |-> [recipient EXCEPT
                    !.array = Move(@, 0, node.array, 1, node.max_size_),
                    !.size_ = @ + moved,
                    !.next_page_id_ = node.next_page_id_]]

\* [node, recipient] after node->MoveHalfTo(recipient) of a leaf; recipient_id
\* is the recipient's page id.
LeafMoveHalfTo(node, recipient, recipient_id) ==
  LET moved == node.max_size_ - GetMinSize(node) IN
  [node |-> [node EXCEPT !.size_ = @ - moved, !.next_page_id_ = recipient_id],
   recipient |-> [recipient EXCEPT
                    !.array = Move(@, 0, node.array, GetMinSize(node), node.max_size_),
                    !.size_ = @ + moved,
                    !.next_page_id_ = node.next_page_id_]]

\* The same for an internal node; the caller re-parents the moved children.
InternalMoveHalfTo(node, recipient) ==
  LET moved == node.max_size_ - GetMinSize(node) IN
  [node |-> [node EXCEPT !.size_ = @ - moved],
   recipient |-> [recipient EXCEPT
                    !.array = Move(@, recipient.size_, node.array, GetMinSize(node), node.size_),
                    !.size_ = @ + moved]]

\* MoveAllTo that leaves the recipient's next_page_id_ as it was.
LeafMoveAllTo_KeepNext(node, recipient) ==
  [node |-> [node EXCEPT !.size_ = 0],
   recipient |-> [recipient EXCEPT
                    !.array = Move(@, recipient.size_, node.array, 0, node.size_),
                    !.size_ = @ + node.size_]]

\* [node, recipient] after node->MoveAllTo(recipient) of a leaf.
LeafMoveAllTo(node, recipient) ==
  [node |-> [node EXCEPT !.size_ = 0],
   recipient |-> [recipient EXCEPT
                    !.array = Move(@, recipient.size_, node.array, 0, node.size_),
                    !.size_ = @ + node.size_,
                    !.next_page_id_ = node.next_page_id_]]

InternalMoveAllTo(node, recipient, middle_key) ==
  LET keyed == [node.array EXCEPT ![0] = [@ EXCEPT !.first = middle_key]] IN
  [node |-> [node EXCEPT !.array = keyed, !.size_ = 0],
   recipient |-> [recipient EXCEPT
                    !.array = Move(@, recipient.size_, keyed, 0, node.size_),
                    !.size_ = @ + node.size_]]

LeafMoveFirstToEndOf(node, recipient) ==
  [node |-> [node EXCEPT !.array = Move(@, 0, node.array, 1, node.size_), !.size_ = @ - 1],
   recipient |-> [recipient EXCEPT
                    !.array = Move(@, recipient.size_, node.array, 0, 1),
                    !.size_ = @ + 1]]

\* MoveLastToFrontOf that leaves the moved pair in the giving leaf as well.
LeafMoveLastToFrontOf_KeepLast(node, recipient) ==
  [node |-> node,
   recipient |-> [recipient EXCEPT
                    !.array = [MoveBackward(@, 0, recipient.size_) EXCEPT
                                 ![0] = node.array[node.size_ - 1]],
                    !.size_ = @ + 1]]

LeafMoveLastToFrontOf(node, recipient) ==
  [node |-> [node EXCEPT !.size_ = @ - 1],
   recipient |-> [recipient EXCEPT
                    !.array = [MoveBackward(@, 0, recipient.size_) EXCEPT
                                 ![0] = node.array[node.size_ - 1]],
                    !.size_ = @ + 1]]

InternalMoveFirstToEndOf(node, recipient, middle_key) ==
  [node |-> [node EXCEPT !.array = Move(@, 0, node.array, 1, node.size_), !.size_ = @ - 1],
   recipient |-> [recipient EXCEPT
                    !.array = [@ EXCEPT ![recipient.size_] =
                                 [first |-> middle_key, second |-> node.array[0].second]],
                    !.size_ = @ + 1]]

InternalMoveLastToFrontOf(node, recipient, middle_key) ==
  [node |-> [node EXCEPT !.size_ = @ - 1],
   recipient |-> [recipient EXCEPT
                    !.array = [MoveBackward(@, 0, recipient.size_) EXCEPT
                                 ![0] = [first |-> middle_key,
                                         second |-> node.array[node.size_ - 1].second]],
                    !.size_ = @ + 1]]

\* ---- the tree ----

\* The tree as an operation sees it and leaves it: the pages, the next page id
\* NewPage hands out, root_page_id_, and whether the operation stayed inside
\* the tree's own pages (it did not when it ran into abort() or an assert, or
\* took a page that is no node of the tree for one).  pins are the pin counts
\* of the pages.
Tree ==
  [pages |-> tree_pages, next_page_id |-> tree_next_page_id,
   root_page_id |-> root_page_id_, defined |-> TRUE, pins |-> pin_count]

Undefined(s) == [s EXCEPT !.defined = FALSE]
\* NewPage past the pages explored: the operation is not taken.
OutOfPages(s) == [s EXCEPT !.next_page_id = MaxTreePages + 2]

IsNode(pages, page_id) ==
  page_id \in TreePageIds /\ pages[page_id].page_type \in {"LEAF_PAGE", "INTERNAL_PAGE"}

\* The pin counts after BufferPoolManager::FetchPage(page_id) and after
\* UnpinPage(page_id), which leaves a count of 0 as it is.  A page that one
\* operator pins and unpins again (NewPage and UnpinPage in StartNewTree, Split
\* and InsertIntoParent, FetchPage and UnpinPage in InsertIntoParent and
\* BatchChangeChildParentId) has the count it had.
FetchedPage(pins, page_id) ==
  IF page_id \in DOMAIN pins THEN [pins EXCEPT ![page_id] = @ + 1] ELSE pins

UnpinnedPage(pins, page_id) ==
  IF page_id \in DOMAIN pins /\ pins[page_id] > 0 THEN [pins EXCEPT ![page_id] = @ - 1]
  ELSE pins

\* UnpinPage of each page of a sequence, in its order.
RECURSIVE UnpinnedPages(_, _)
UnpinnedPages(pins, page_ids) ==
  IF page_ids = <<>> THEN pins
  ELSE UnpinnedPages(UnpinnedPage(pins, Head(page_ids)), Tail(page_ids))

\* The descent of FindLeafPageWithOperationInternal from page_id: the page id
\* of the leaf reached, INVALID_PAGE_ID when the descent leaves the tree's
\* nodes.  depth bounds the descent by the number of pages.
RECURSIVE FindLeafPage(_, _, _, _, _)
FindLeafPage(pages, page_id, key, leftMost, depth) ==
  IF ~IsNode(pages, page_id) \/ depth = 0 THEN INVALID_PAGE_ID
  ELSE IF IsLeafPage(pages[page_id]) THEN page_id
  ELSE FindLeafPage(pages,
                    IF leftMost THEN pages[page_id].array[0].second
                    ELSE InternalLookup(pages[page_id], key),
                    key, leftMost, depth - 1)

RECURSIVE Split(_, _)
RECURSIVE InsertIntoParent(_, _, _, _)

Split(s, id) ==
  LET node == s.pages[id]
      right_page_id == s.next_page_id
  IN
  IF node.size_ # node.max_size_ THEN Undefined(s)
  ELSE IF right_page_id > MaxTreePages THEN OutOfPages(s)
  ELSE
    LET halves == IF IsLeafPage(node)
                  THEN LeafMoveHalfTo(node,
                         LeafInit(s.pages[right_page_id], node.parent_page_id_, leaf_max_size_),
                         right_page_id)
                  ELSE InternalMoveHalfTo(node,
                         InternalInit(s.pages[right_page_id], node.parent_page_id_,
                                      internal_max_size_))
        moved == [s.pages EXCEPT ![id] = halves.node, ![right_page_id] = halves.recipient]
        pages == IF IsLeafPage(node) THEN moved
                 ELSE BatchChangeChildParentId(moved, right_page_id, 0, halves.recipient.size_)
    IN InsertIntoParent([s EXCEPT !.pages = pages, !.next_page_id = @ + 1],
                        id, halves.recipient.array[0].first, right_page_id)

InsertIntoParent(s, old_node, key, new_node) ==
  IF IsRootPage(s.pages[old_node])
  THEN
    LET root_page_id == s.next_page_id IN
    IF root_page_id > MaxTreePages THEN OutOfPages(s)
    ELSE
      LET internal == PopulateNewRoot(
                        InternalInit(s.pages[root_page_id], INVALID_PAGE_ID, internal_max_size_),
                        old_node, key, new_node)
      IN [s EXCEPT !.pages = [@ EXCEPT ![root_page_id] = internal,
                                       ![old_node] = [@ EXCEPT !.parent_page_id_ = root_page_id],
                                       ![new_node] = [@ EXCEPT !.parent_page_id_ = root_page_id]],
                   !.next_page_id = @ + 1,
                   !.root_page_id = root_page_id]
  ELSE
    LET parent_page_id == s.pages[old_node].parent_page_id_
        parent == InsertNodeAfter(s.pages[parent_page_id], old_node, key, new_node)
        inserted == [s EXCEPT !.pages = [@ EXCEPT ![parent_page_id] = parent]]
    IN IF parent.size_ >= parent.max_size_ THEN Split(inserted, parent_page_id) ELSE inserted

\* [tree, ret]: the tree after StartNewTree and what Insert returns.
StartNewTree(s, key, value) ==
  LET page_id == s.next_page_id IN
  IF page_id > MaxTreePages THEN [tree |-> OutOfPages(s), ret |-> TRUE]
  ELSE
    LET leaf == LeafInsert(LeafInit(s.pages[page_id], INVALID_PAGE_ID, leaf_max_size_),
                           key, value)
    IN [tree |-> [s EXCEPT !.pages = [@ EXCEPT ![page_id] = leaf],
                           !.next_page_id = @ + 1,
                           !.root_page_id = page_id],
        ret |-> TRUE]

\* InsertIntoLeaf from the leaf that FindLeafPageWithOperation returned.
InsertIntoLeafAt(s, page_id, key, value) ==
  IF page_id = INVALID_PAGE_ID THEN [tree |-> Undefined(s), ret |-> FALSE]
  ELSE
    LET old == s.pages[page_id]
        leaf == LeafInsert(old, key, value)
        inserted == [s EXCEPT !.pages = [@ EXCEPT ![page_id] = leaf]]
    IN IF old.size_ >= old.max_size_ THEN [tree |-> Undefined(s), ret |-> FALSE]
       ELSE IF leaf.size_ = old.size_ THEN [tree |-> s, ret |-> FALSE]
       ELSE IF leaf.size_ >= leaf.max_size_ THEN [tree |-> Split(inserted, page_id), ret |-> TRUE]
       ELSE [tree |-> inserted, ret |-> TRUE]

InsertIntoLeaf(s, key, value) ==
  InsertIntoLeafAt(s, FindLeafPage(s.pages, s.root_page_id, key, FALSE, MaxTreePages),
                   key, value)

TreeInsert(s, key, value) ==
  IF s.root_page_id = INVALID_PAGE_ID THEN StartNewTree(s, key, value)
  ELSE InsertIntoLeaf(s, key, value)

AdjustRoot(s, old_root) ==
  LET node == s.pages[old_root] IN
  IF ~IsLeafPage(node) /\ node.size_ = 1
  THEN LET child == node.array[0].second IN
       IF ~IsNode(s.pages, child) THEN Undefined(s)
       ELSE [s EXCEPT !.root_page_id = child,
                      !.pages = [@ EXCEPT ![child] = [@ EXCEPT !.parent_page_id_ = INVALID_PAGE_ID]],
                      !.pins = FetchedPage(@, child)]
  ELSE IF IsLeafPage(node) /\ node.size_ = 0
  THEN [s EXCEPT !.root_page_id = INVALID_PAGE_ID]
  ELSE s

\* The merge branch of DeleteEntry: the later of the two nodes is moved into the
\* earlier one.  The tree after it and before the recursive call on the parent.
Coalesce(s, left, right, middle_key) ==
  LET node == s.pages[left]
      sibling == s.pages[right]
  IN IF IsLeafPage(node)
     THEN LET m == LeafMoveAllTo(sibling, node) IN
          [s EXCEPT !.pages = [@ EXCEPT ![left] = m.recipient, ![right] = m.node]]
     ELSE LET m == InternalMoveAllTo(sibling, node, middle_key)
              moved == [s.pages EXCEPT ![left] = m.recipient, ![right] = m.node]
          IN [s EXCEPT !.pages = BatchChangeChildParentId(moved, left, node.size_,
                                                          node.size_ + sibling.size_)]

\* The other branch: one entry of the sibling moves to the node and the parent's
\* key at middle_idx is set again.
Redistribute(s, id, sibling_id, parent_id, idx, sibling_idx, middle_idx) ==
  LET node == s.pages[id]
      sibling == s.pages[sibling_id]
      parent == s.pages[parent_id]
      old_key == parent.array[middle_idx].first
      last_key == sibling.array[sibling.size_ - 1].first
      m == IF sibling_idx < idx
           THEN IF IsLeafPage(node) THEN LeafMoveLastToFrontOf(sibling, node)
                ELSE InternalMoveLastToFrontOf(sibling, node, last_key)
           ELSE IF IsLeafPage(node) THEN LeafMoveFirstToEndOf(sibling, node)
                ELSE InternalMoveFirstToEndOf(sibling, node, old_key)
      middle_key == IF sibling_idx < idx THEN last_key ELSE m.node.array[0].first
      moved == [s.pages EXCEPT
                  ![id] = m.recipient,
                  ![sibling_id] = m.node,
                  ![parent_id] = [@ EXCEPT !.array = [@ EXCEPT ![middle_idx] =
                                                        [@ EXCEPT !.first = middle_key]]]]
  IN [s EXCEPT !.pages =
        IF IsLeafPage(node) THEN moved
        ELSE IF sibling_idx < idx THEN BatchChangeChildParentId(moved, id, 0, 1)
        ELSE BatchChangeChildParentId(moved, id, node.size_, node.size_ + 1)]

RECURSIVE DeleteEntry(_, _, _)
DeleteEntry(s, id, key) ==
  LET before == s.pages[id]
      node == IF IsLeafPage(before) THEN RemoveAndDeleteRecord(before, key)
              ELSE InternalRemove(before, ValueIndex(before, InternalLookup(before, key)))
      removed == [s EXCEPT !.pages = [@ EXCEPT ![id] = node]]
  IN
  IF IsRootPage(node) THEN AdjustRoot(removed, id)
  ELSE IF node.size_ < GetMinSize(node)
  THEN
    LET parent_id == node.parent_page_id_
        parent == removed.pages[parent_id]
        idx == ValueIndex(parent, id)
        sibling_idx == IF idx = 0 THEN 1 ELSE idx - 1
        middle_idx == IF idx > sibling_idx THEN idx ELSE sibling_idx
        middle_key == parent.array[middle_idx].first
        sibling_id == parent.array[sibling_idx].second
        fetched == [removed EXCEPT
                      !.pins = FetchedPage(FetchedPage(@, parent_id), sibling_id)]
    IN
    IF ~IsNode(removed.pages, parent_id) THEN Undefined(removed)
    ELSE IF sibling_idx >= parent.size_ \/ ~IsNode(removed.pages, sibling_id)
    THEN Undefined(removed)
    ELSE IF node.size_ + removed.pages[sibling_id].size_ < node.max_size_
    THEN DeleteEntry(IF idx > sibling_idx
                     THEN [Coalesce(fetched, sibling_id, id, middle_key)
                             EXCEPT !.pins = UnpinnedPage(@, id)]
                     ELSE [Coalesce(fetched, id, sibling_id, middle_key)
                             EXCEPT !.pins = UnpinnedPage(@, sibling_id)],
                     parent_id, middle_key)
    ELSE [Redistribute(fetched, id, sibling_id, parent_id, idx, sibling_idx, middle_idx)
            EXCEPT !.pins = UnpinnedPage(@, sibling_id)]
  ELSE removed

TreeRemove(s, key) ==
  IF s.root_page_id = INVALID_PAGE_ID THEN s
  ELSE LET page_id == FindLeafPage(s.pages, s.root_page_id, key, FALSE, MaxTreePages) IN
       IF page_id = INVALID_PAGE_ID THEN Undefined(s) ELSE DeleteEntry(s, page_id, key)

\* What GetValue can return: found with a value, or not found; "undefined"
\* when the descent left the tree's nodes.
GetValueResult(status, found, value) == [status |-> status, found |-> found, value |-> value]

TreeGetValue(s, key) ==
  LET page_id == FindLeafPage(s.pages, s.root_page_id, key, FALSE, MaxTreePages) IN
  IF page_id = INVALID_PAGE_ID THEN GetValueResult("undefined", FALSE, NoValue)
  ELSE LET l == LeafLookup(s.pages[page_id], key) IN GetValueResult("ok", l.found, l.value)

\* ---- the calls ----

\* What a call of the tree returned: whether it came back at all, and the
\* result of GetValue or Insert.
IndexReturn(op, defined, found, value) ==
  [op |-> op, status |-> IF defined THEN "ok" ELSE "undefined",
   found |-> found, value |-> value]

\* A call that ran into abort(), an assert or a page that is no node ends the
\* process: no call follows it.
Alive == tree_ret.status = "ok"

\* BPlusTree::Insert.  index_map follows the abstract map: the pair is added
\* when the key has no value.
IndexInsert(key, value) ==
  LET r == TreeInsert(Tree, key, value) IN
  /\ Alive
  /\ key \in tree_scope.keys
  /\ value \in tree_scope.values
  /\ tree_calls < tree_scope.calls
  /\ r.tree.next_page_id <= MaxTreePages + 1
  /\ tree_calls' = tree_calls + 1
  /\ tree_pages' = r.tree.pages
  /\ tree_next_page_id' = r.tree.next_page_id
  /\ root_page_id_' = r.tree.root_page_id
  /\ tree_ret' = IndexReturn("Insert", r.tree.defined, r.ret, NoValue)
  /\ index_map' = IF index_map[key] = NoValue THEN [index_map EXCEPT ![key] = value]
                  ELSE index_map
  /\ UNCHANGED <<leaf_max_size_, internal_max_size_, tree_scope, threads, start_tree,
                 pin_count, iterator, vars, bpmVars>>

\* BPlusTree::Remove.
IndexRemove(key) ==
  LET r == TreeRemove(Tree, key) IN
  /\ Alive
  /\ key \in tree_scope.keys
  /\ tree_calls < tree_scope.calls
  /\ tree_calls' = tree_calls + 1
  /\ tree_pages' = r.pages
  /\ root_page_id_' = r.root_page_id
  /\ tree_ret' = IndexReturn("Remove", r.defined, FALSE, NoValue)
  /\ index_map' = [index_map EXCEPT ![key] = NoValue]
  /\ UNCHANGED <<tree_next_page_id, leaf_max_size_, internal_max_size_, tree_scope,
                 threads, start_tree, pin_count, iterator, vars, bpmVars>>

\* BPlusTree::GetValue.
IndexGetValue(key) ==
  LET r == TreeGetValue(Tree, key) IN
  /\ Alive
  /\ key \in tree_scope.keys
  /\ tree_ret' = IndexReturn("GetValue", r.status = "ok", r.found, r.value)
  /\ UNCHANGED <<tree_pages, tree_next_page_id, root_page_id_, index_map, tree_calls,
                 leaf_max_size_, internal_max_size_, tree_scope, threads, start_tree,
                 pin_count, iterator, vars, bpmVars>>

\* ---- threads calling the tree concurrently ----

NumThreads == 3
Threads == 1..NumThreads

\* The threads that call the tree in the workload, one call each.
ActiveThreads == {t \in Threads : t <= tree_scope.calls}

\* A thread that has not called the tree.  pc is the thread's position:
\* "idle" before its call, "find" at the start of
\* FindLeafPageWithOperationInternal, "fetch" before FetchPage and the latch
\* of page_id, "leaf" when FindLeafPageWithOperation has returned the leaf,
\* "returned" after the call.  page_set is the transaction's page set (the
\* pages the thread holds the write latch of), rlatch the page it holds the
\* read latch of.
IdleThread ==
  [pc |-> "idle", op |-> "none", key |-> 0, value |-> NoValue,
   page_id |-> INVALID_PAGE_ID, first_loop |-> FALSE, page_set |-> <<>>,
   rlatch |-> INVALID_PAGE_ID, found |-> FALSE, result |-> NoValue]

EmptyTree ==
  [pages |-> [p \in TreePageIds |-> ZeroNode], next_page_id |-> 1,
   root_page_id |-> INVALID_PAGE_ID, defined |-> TRUE,
   pins |-> [p \in TreePageIds |-> 0]]

Range(f) == {f[i] : i \in DOMAIN f}

\* IndexIterator::IndexIterator: the leaf and the slot.
IndexIterator(page, idx) == [page_ |-> page, idx_ |-> idx]

\* IndexIterator::isEnd.
isEnd(it) ==
  /\ tree_pages[it.page_].next_page_id_ = INVALID_PAGE_ID
  /\ it.idx_ >= tree_pages[it.page_].size_

\* IndexIterator::operator++.
Increment(it) ==
  IF /\ it.idx_ = tree_pages[it.page_].size_ - 1
     /\ tree_pages[it.page_].next_page_id_ # INVALID_PAGE_ID
  THEN IndexIterator(tree_pages[it.page_].next_page_id_, 0)
  ELSE IndexIterator(it.page_, it.idx_ + 1)

\* No iterator yet.  state is "none", "live" from the constructor on and
\* "destroyed" after the destructor; rlatch is the page whose read latch
\* FindLeafPage took in begin or Begin and handed over with the leaf.
NoIterator ==
  [state |-> "none", page_ |-> INVALID_PAGE_ID, idx_ |-> 0, rlatch |-> INVALID_PAGE_ID]

\* The calls that descend with IndexOperationType::SEARCH.
Searches(op) == op \in {"GetValue", "begin", "Begin"}

\* Page::WLatch and Page::RLatch return when the reader-writer latch allows.
WLatched(page_id) == \E u \in Threads : page_id \in Range(threads[u].page_set)
RLatched(page_id) ==
  \/ \E u \in Threads : threads[u].rlatch = page_id
  \/ iterator.rlatch = page_id
CanWLatch(page_id) == ~WLatched(page_id) /\ ~RLatched(page_id)
CanRLatch(page_id) == ~WLatched(page_id)

\* The call of thread t ends the process: abort() or a failed assert.
ThreadAborts(t) ==
  /\ tree_ret' = IndexReturn(threads[t].op, FALSE, FALSE, NoValue)
  /\ UNCHANGED <<tree_pages, tree_next_page_id, root_page_id_, threads, pin_count, iterator>>

\* Thread t returns from its call with the tree s: GetValue releases and
\* unpins the leaf, lines 60-61, Insert and Remove the page set in
\* BatchUnpinTransactionWLatch.
ThreadReturns(t, s, found, value) ==
  /\ s.next_page_id <= MaxTreePages + 1
  /\ pin_count' = UnpinnedPages(s.pins, IF threads[t].op = "GetValue"
                                         THEN <<threads[t].rlatch>>
                                         ELSE threads[t].page_set)
  /\ UNCHANGED iterator
  /\ tree_pages' = s.pages
  /\ tree_next_page_id' = s.next_page_id
  /\ root_page_id_' = s.root_page_id
  /\ tree_ret' = IndexReturn(threads[t].op, s.defined, found, value)
  /\ threads' = [threads EXCEPT ![t] = [@ EXCEPT !.pc = "returned",
                                                 !.page_set = <<>>,
                                                 !.rlatch = INVALID_PAGE_ID,
                                                 !.found = found,
                                                 !.result = value]]

concFrame == <<leaf_max_size_, internal_max_size_, tree_calls, tree_scope, index_map,
               start_tree, vars, bpmVars>>

\* BPlusTree::Insert up to InsertIntoLeaf: under root_node_mutex_ the empty
\* tree gets its first leaf, lines 93-97.
CallInsert(t, key, value) ==
  /\ Alive
  /\ t \in ActiveThreads
  /\ threads[t].pc = "idle"
  /\ key \in tree_scope.keys
  /\ value \in tree_scope.values
  /\ IF root_page_id_ = INVALID_PAGE_ID
     THEN /\ tree_pages' = StartNewTree(Tree, key, value).tree.pages
          /\ tree_next_page_id' = StartNewTree(Tree, key, value).tree.next_page_id
          /\ root_page_id_' = StartNewTree(Tree, key, value).tree.root_page_id
          /\ tree_ret' = IndexReturn("Insert", TRUE, TRUE, NoValue)
          /\ threads' = [threads EXCEPT ![t] = [@ EXCEPT !.pc = "returned", !.op = "Insert",
                                                         !.key = key, !.value = value,
                                                         !.found = TRUE]]
     ELSE /\ threads' = [threads EXCEPT ![t] = [@ EXCEPT !.pc = "find", !.op = "Insert",
                                                         !.key = key, !.value = value]]
          /\ UNCHANGED <<tree_pages, tree_next_page_id, root_page_id_, tree_ret>>
  /\ UNCHANGED <<pin_count, iterator, concFrame>>

\* BPlusTree::Remove up to FindLeafPageWithOperation, lines 311-313.
CallRemove(t, key) ==
  /\ Alive
  /\ t \in ActiveThreads
  /\ threads[t].pc = "idle"
  /\ key \in tree_scope.keys
  /\ threads' = [threads EXCEPT ![t] = [@ EXCEPT
                   !.pc = IF root_page_id_ = INVALID_PAGE_ID THEN "returned" ELSE "find",
                   !.op = "Remove", !.key = key]]
  /\ tree_ret' = IF root_page_id_ = INVALID_PAGE_ID
                 THEN IndexReturn("Remove", TRUE, FALSE, NoValue) ELSE tree_ret
  /\ UNCHANGED <<tree_pages, tree_next_page_id, root_page_id_, pin_count, iterator, concFrame>>

\* BPlusTree::GetValue up to FindLeafPage.
CallGetValue(t, key) ==
  /\ Alive
  /\ t \in ActiveThreads
  /\ threads[t].pc = "idle"
  /\ key \in tree_scope.keys
  /\ threads' = [threads EXCEPT ![t] = [@ EXCEPT !.pc = "find", !.op = "GetValue",
                                                 !.key = key]]
  /\ UNCHANGED <<tree_pages, tree_next_page_id, root_page_id_, tree_ret, pin_count,
                 iterator, concFrame>>

\* BPlusTree::begin (leftMost) and BPlusTree::Begin(key) up to FindLeafPage.
\* One iterator is built.
CallBegin(t, key, leftMost) ==
  /\ Alive
  /\ t \in ActiveThreads
  /\ threads[t].pc = "idle"
  /\ key \in tree_scope.keys
  /\ leftMost => key = 0
  /\ iterator.state = "none"
  /\ \A u \in Threads : threads[u].op \notin {"begin", "Begin"}
  /\ threads' = [threads EXCEPT ![t] = [@ EXCEPT !.pc = "find",
                                                 !.op = IF leftMost THEN "begin" ELSE "Begin",
                                                 !.key = key]]
  /\ UNCHANGED <<tree_pages, tree_next_page_id, root_page_id_, tree_ret, pin_count,
                 iterator, concFrame>>

\* FindLeafPageWithOperationInternal, line 623: the thread reads root_page_id_.
ReadRoot(t) ==
  /\ Alive
  /\ threads[t].pc = "find"
  /\ threads' = [threads EXCEPT ![t] = [@ EXCEPT !.pc = "fetch", !.page_id = root_page_id_,
                                                 !.first_loop = TRUE]]
  /\ UNCHANGED <<tree_pages, tree_next_page_id, root_page_id_, tree_ret, pin_count,
                 iterator, concFrame>>

\* Whether a node lets the operation release the ancestors, lines 667-677.
SafeNode(op, n) ==
  IF op = "Insert" THEN n.size_ < n.max_size_ - 2 ELSE n.size_ > GetMinSize(n)

\* The thread after it latched page_id as the operation asks: back to the start
\* when the page is not the root any more (lines 632-641 and 656-661),
\* otherwise the latch is kept, the ancestors are released for a reader or at
\* a safe node, and the thread is at the leaf or goes on to the child.
AfterLatch(th) ==
  LET node == tree_pages[th.page_id]
      next == IF IsLeafPage(node) THEN [th EXCEPT !.pc = "leaf", !.first_loop = FALSE]
              ELSE [th EXCEPT !.page_id = IF th.op = "begin" THEN node.array[0].second
                                          ELSE InternalLookup(node, th.key),
                              !.first_loop = FALSE]
  IN IF th.first_loop /\ th.page_id # root_page_id_ THEN [th EXCEPT !.pc = "find"]
     ELSE IF Searches(th.op) THEN [next EXCEPT !.rlatch = th.page_id]
     ELSE [next EXCEPT !.page_set = IF SafeNode(th.op, node) THEN <<th.page_id>>
                                    ELSE Append(th.page_set, th.page_id)]

\* The pin counts after the same: the page is fetched, and unpinned when the
\* thread goes back to the start; the pages released are unpinned.
PinsAfterLatch(th) ==
  IF th.first_loop /\ th.page_id # root_page_id_ THEN pin_count
  ELSE IF Searches(th.op) THEN UnpinnedPage(FetchedPage(pin_count, th.page_id), th.rlatch)
  ELSE IF SafeNode(th.op, tree_pages[th.page_id])
  THEN UnpinnedPages(FetchedPage(pin_count, th.page_id), th.page_set)
  ELSE FetchedPage(pin_count, th.page_id)

\* One round of the loop of FindLeafPageWithOperationInternal, lines 626-692:
\* FetchPage, which asserts a valid page id, then the latch.
FetchAndLatch(t) ==
  /\ Alive
  /\ threads[t].pc = "fetch"
  /\ IF ~IsNode(tree_pages, threads[t].page_id) THEN ThreadAborts(t)
     ELSE /\ IF Searches(threads[t].op) THEN CanRLatch(threads[t].page_id)
             ELSE CanWLatch(threads[t].page_id)
          /\ threads' = [threads EXCEPT ![t] = AfterLatch(@)]
          /\ pin_count' = PinsAfterLatch(threads[t])
          /\ UNCHANGED <<tree_pages, tree_next_page_id, root_page_id_, tree_ret, iterator>>
  /\ UNCHANGED concFrame

\* begin and Begin after FindLeafPage, lines 559 and 570-572: the iterator is
\* built on the leaf as FindLeafPage returned it, pinned and read-latched.
BuildIterator(t, leaf) ==
  /\ iterator' = [state |-> "live", page_ |-> leaf,
                  idx_ |-> IF threads[t].op = "begin" THEN 0
                           ELSE LeafBiSearch(tree_pages[leaf], threads[t].key),
                  rlatch |-> leaf]
  /\ threads' = [threads EXCEPT ![t] = [@ EXCEPT !.pc = "returned",
                                                 !.rlatch = INVALID_PAGE_ID]]
  /\ tree_ret' = IndexReturn(threads[t].op, TRUE, FALSE, NoValue)
  /\ UNCHANGED <<tree_pages, tree_next_page_id, root_page_id_, pin_count>>

\* The rest of the call once the leaf is latched: InsertIntoLeaf from line 150,
\* Remove from line 316, GetValue from line 56, with the latches released at
\* the end; begin and Begin build the iterator.
OnLeaf(t) ==
  LET th == threads[t]
      leaf == IF Searches(th.op) THEN th.rlatch ELSE th.page_set[Len(th.page_set)]
      inserted == InsertIntoLeafAt(Tree, leaf, th.key, th.value)
      looked == LeafLookup(tree_pages[leaf], th.key)
  IN
  /\ Alive
  /\ th.pc = "leaf"
  /\ IF th.op = "Insert" THEN ThreadReturns(t, inserted.tree, inserted.ret, NoValue)
     ELSE IF th.op = "Remove" THEN ThreadReturns(t, DeleteEntry(Tree, leaf, th.key), FALSE, NoValue)
     ELSE IF th.op = "GetValue" THEN ThreadReturns(t, Tree, looked.found, looked.value)
     ELSE BuildIterator(t, leaf)
  /\ UNCHANGED concFrame

\* IndexIterator::operator++, lines 34-49, called while isEnd is false: at the
\* last slot of a leaf that has a next leaf, the next leaf is fetched and the
\* leaf unpinned.
IteratorIncrement ==
  LET next == Increment(iterator) IN
  /\ Alive
  /\ iterator.state = "live"
  /\ ~isEnd(iterator)
  /\ iterator.idx_ < MaxNodeSize
  /\ iterator' = [iterator EXCEPT !.page_ = next.page_, !.idx_ = next.idx_]
  /\ pin_count' = IF next.page_ = iterator.page_ THEN pin_count
                  ELSE UnpinnedPage(FetchedPage(pin_count, next.page_), iterator.page_)
  /\ UNCHANGED <<tree_pages, tree_next_page_id, root_page_id_, tree_ret, threads, concFrame>>

\* IndexIterator::~IndexIterator, line 25.
IteratorDestroy ==
  /\ Alive
  /\ iterator.state = "live"
  /\ iterator' = [iterator EXCEPT !.state = "destroyed"]
  /\ pin_count' = UnpinnedPage(pin_count, iterator.page_)
  /\ UNCHANGED <<tree_pages, tree_next_page_id, root_page_id_, tree_ret, threads, concFrame>>

\* The workloads explored: the keys that differ from the zero of an unused
\* slot, with every value and every max size, or every key with one value on
\* the largest max size and one call more.
TreeScopes ==
  {[keys |-> Keys \ {0}, values |-> Values, sizes |-> NodeSizes, calls |-> MaxTreeCalls],
   [keys |-> Keys, values |-> {1}, sizes |-> {MaxNodeSize}, calls |-> MaxTreeCalls + 1]}

\* No call of the tree.
NoTreeScope == [keys |-> {}, values |-> {}, sizes |-> {}, calls |-> 0]

\* BPlusTree::BPlusTree, lines 22-31, over a pool whose new pages are zeros.
InitBPlusTree(leaf_max_size, internal_max_size, workload) ==
  /\ tree_scope = workload
  /\ tree_pages = [p \in TreePageIds |-> ZeroNode]
  /\ tree_next_page_id = 1
  /\ root_page_id_ = INVALID_PAGE_ID
  /\ leaf_max_size_ = leaf_max_size
  /\ internal_max_size_ = internal_max_size
  /\ index_map = [k \in Keys |-> NoValue]
  /\ tree_ret = IndexReturn("none", TRUE, FALSE, NoValue)
  /\ tree_calls = 0
  /\ threads = [t \in Threads |-> IdleThread]
  /\ start_tree = EmptyTree
  /\ pin_count = [p \in TreePageIds |-> 0]
  /\ iterator = NoIterator

---------------------------------------------------------------------------
\* Specifications.

\* The workloads explored: every transaction on the first rid alone, all at
\* REPEATABLE_READ (contention on one queue), or the first two transactions on
\* every rid at any isolation levels (locks held across queues), or the same
\* two at REPEATABLE_READ with one more call each (a lock on each rid and an
\* upgrade).
Scopes ==
  {[txns |-> Txns, rids |-> {1}, levels |-> {"REPEATABLE_READ"}, calls |-> MaxCalls - 1],
   [txns |-> {1, 2}, rids |-> Rids, levels |-> IsolationLevels, calls |-> MaxCalls - 1],
   [txns |-> {1, 2}, rids |-> Rids, levels |-> {"REPEATABLE_READ"}, calls |-> MaxCalls]}

InitLockManager ==
  /\ state = [t \in Txns |-> "GROWING"]
  /\ shared_lock_set = [t \in Txns |-> {}]
  /\ exclusive_lock_set = [t \in Txns |-> {}]
  /\ request_queue = [r \in Rids |-> <<>>]
  /\ upgrading = [r \in Rids |-> FALSE]
  /\ pc = [t \in Txns |-> Idle]
  /\ abort_reason = [t \in Txns |-> "none"]
  /\ calls = [t \in Txns |-> 0]
  /\ waits_for = [v \in Vertices |-> {}]
  /\ dpc = "sleep"
  /\ cycle_result = NoResult

Init ==
  /\ scope \in Scopes
  /\ iso \in [Txns -> IsolationLevels]
  /\ \A t \in Txns :
       iso[t] \in (IF t \in scope.txns THEN scope.levels ELSE {"REPEATABLE_READ"})
  /\ InitLockManager
  /\ InitBufferPool
  /\ InitBPlusTree(MaxNodeSize, MaxNodeSize, NoTreeScope)

Next ==
  \/ \E t \in scope.txns, r \in scope.rids : LockShared(t, r)
  \/ \E t \in scope.txns, r \in scope.rids : LockExclusive(t, r)
  \/ \E t \in scope.txns, r \in scope.rids : LockUpgrade(t, r)
  \/ \E t \in scope.txns : Enqueue(t)
  \/ \E t \in scope.txns : Sleep(t)
  \/ \E t \in scope.txns : SpuriousWake(t)
  \/ \E t \in scope.txns : Recheck(t)
  \/ \E t \in scope.txns, r \in scope.rids : Unlock(t, r)
  \/ DetectorAcquire
  \/ DetectorBreakCycle
  \/ DetectorRelease

\* The lock manager under every interleaving of its threads.
Spec == Init /\ [][Next]_vars

\* The lock manager called through LockRead as well.
ReadScopes ==
  {[txns |-> {1, 2}, rids |-> Rids, levels |-> IsolationLevels, calls |-> MaxCalls - 1]}

ReadInit ==
  /\ scope \in ReadScopes
  /\ iso \in [Txns -> IsolationLevels]
  /\ \A t \in Txns :
       iso[t] \in (IF t \in scope.txns THEN scope.levels ELSE {"REPEATABLE_READ"})
  /\ InitLockManager
  /\ InitBufferPool
  /\ InitBPlusTree(MaxNodeSize, MaxNodeSize, NoTreeScope)

ReadNext ==
  \/ Next
  \/ \E t \in scope.txns, r \in scope.rids : LockRead(t, r)
  \/ \E t \in scope.txns : ReadUnlock(t)

ReadSpec == ReadInit /\ [][ReadNext]_vars

\* The graph API on its own: the detector is stopped and no lock is taken.
GraphNext ==
  \/ \E t1, t2 \in Vertices : t1 # t2 /\ AddEdge(t1, t2)
  \/ \E t1, t2 \in Vertices : RemoveEdge(t1, t2)
  \/ HasCycleCall

GraphInit ==
  /\ scope = [txns |-> {}, rids |-> {}, levels |-> {}]
  /\ iso = [t \in Txns |-> "REPEATABLE_READ"]
  /\ InitLockManager
  /\ InitBufferPool
  /\ InitBPlusTree(MaxNodeSize, MaxNodeSize, NoTreeScope)

GraphSpec == GraphInit /\ [][GraphNext]_vars

\* The buffer pool under any sequence of calls; no lock is taken.
BpmInit == GraphInit

BpmNext ==
  \/ \E p \in PageIds : FetchPage(p)
  \/ NewPage
  \/ \E p \in PageIds : UnpinPage(p, FALSE, 0)
  \/ \E p \in PageIds, d \in Data : UnpinPage(p, TRUE, d)
  \/ \E p \in PageIds : FlushPage(p)
  \/ \E p \in PageIds : DeletePage(p)
  \/ FlushAllPages

BpmSpec == BpmInit /\ [][BpmNext]_bpmVars

\* The replacer on its own, of any capacity up to PoolSize, called with any
\* frame ids.
ReplacerInit ==
  /\ scope = [txns |-> {}, rids |-> {}, levels |-> {}]
  /\ iso = [t \in Txns |-> "REPEATABLE_READ"]
  /\ InitLockManager
  /\ pages_ = [f \in Frames |-> Page(INVALID_PAGE_ID, 0, FALSE, 0)]
  /\ page_table_ = <<>>
  /\ free_list_ = <<>>
  /\ lis_ = <<>>
  /\ cap_ \in 1..PoolSize
  /\ disk = [p \in PageIds |-> 0]
  /\ next_page_id = 0
  /\ ret = Return("none", TRUE)
  /\ dirty_data = [p \in PageIds |-> NoData]
  /\ entry_time = [f \in ReplacerFrames |-> 0]
  /\ clock = 0
  /\ InitBPlusTree(MaxNodeSize, MaxNodeSize, NoTreeScope)

ReplacerNext ==
  \/ Victim
  \/ \E f \in ReplacerFrames : Pin(f)
  \/ \E f \in ReplacerFrames : Unpin(f)

ReplacerSpec == ReplacerInit /\ [][ReplacerNext]_bpmVars

\* The tree under any sequence of calls of one thread, built with one max size
\* in NodeSizes for its leaves and its internal nodes; no lock is taken and
\* the pool is not called directly.
TreeInit ==
  /\ scope = [txns |-> {}, rids |-> {}, levels |-> {}]
  /\ iso = [t \in Txns |-> "REPEATABLE_READ"]
  /\ InitLockManager
  /\ InitBufferPool
  /\ \E workload \in TreeScopes :
       \E max_size \in workload.sizes : InitBPlusTree(max_size, max_size, workload)

TreeNext ==
  \/ \E key \in Keys, value \in Values : IndexInsert(key, value)
  \/ \E key \in Keys : IndexRemove(key)
  \/ \E key \in Keys : IndexGetValue(key)

TreeSpec == TreeInit /\ [][TreeNext]_treeVars

\* The tree called by concurrent threads, one call each, from a tree that
\* Inserts of the first keys in ascending order built (the key 0 last).
StartKeys(n) == [i \in 1..n |-> IF i <= MaxKey THEN i ELSE 0]

RECURSIVE BuildTree(_, _)
BuildTree(s, keys) ==
  IF keys = <<>> THEN s
  ELSE BuildTree(TreeInsert(s, Head(keys), 1).tree, Tail(keys))

\* The workloads explored: all threads but one on every tree built from up to
\* MaxKey + 1 keys with every max size, or all threads on the largest tree
\* with the largest max size.
ConcScopes ==
  {[keys |-> Keys, values |-> {1}, sizes |-> NodeSizes, calls |-> NumThreads - 1,
    starts |-> 0..(MaxKey + 1)],
   [keys |-> Keys, values |-> {1}, sizes |-> {MaxNodeSize}, calls |-> NumThreads,
    starts |-> {MaxKey + 1}]}

\* The threads before their calls on a tree of one of the workloads.
ThreadsInit(workloads) ==
  /\ scope = [txns |-> {}, rids |-> {}, levels |-> {}]
  /\ iso = [t \in Txns |-> "REPEATABLE_READ"]
  /\ InitLockManager
  /\ InitBufferPool
  /\ tree_scope \in workloads
  /\ \E max_size \in tree_scope.sizes :
       /\ leaf_max_size_ = max_size
       /\ internal_max_size_ = max_size
  /\ \E n \in tree_scope.starts : start_tree = BuildTree(EmptyTree, StartKeys(n))
  /\ tree_pages = start_tree.pages
  /\ tree_next_page_id = start_tree.next_page_id
  /\ root_page_id_ = start_tree.root_page_id
  /\ index_map = [k \in Keys |-> NoValue]
  /\ tree_ret = IndexReturn("none", TRUE, FALSE, NoValue)
  /\ tree_calls = 0
  /\ threads = [t \in Threads |-> IdleThread]
  /\ pin_count = start_tree.pins
  /\ iterator = NoIterator

ConcInit == ThreadsInit(ConcScopes)

ConcNext ==
  \/ \E t \in Threads, key \in Keys, value \in Values : CallInsert(t, key, value)
  \/ \E t \in Threads, key \in Keys : CallRemove(t, key)
  \/ \E t \in Threads, key \in Keys : CallGetValue(t, key)
  \/ \E t \in Threads : ReadRoot(t)
  \/ \E t \in Threads : FetchAndLatch(t)
  \/ \E t \in Threads : OnLeaf(t)

ConcSpec == ConcInit /\ [][ConcNext]_treeVars

\* The tree called by two threads and read through one iterator, from every
\* tree built with every max size.
IterScopes ==
  {[keys |-> Keys, values |-> {1}, sizes |-> NodeSizes, calls |-> 2,
    starts |-> 0..(MaxKey + 1)]}

IterInit == ThreadsInit(IterScopes)

IterNext ==
  \/ ConcNext
  \/ \E t \in Threads, key \in Keys, leftMost \in BOOLEAN : CallBegin(t, key, leftMost)
  \/ IteratorIncrement
  \/ IteratorDestroy

IterSpec == IterInit /\ [][IterNext]_treeVars

---------------------------------------------------------------------------
\* Properties.

Requests(r) == 1..Len(request_queue[r])

\* Transaction t holds a granted request of the given mode on r.
HoldsGranted(queues, t, r, mode) ==
  \E i \in 1..Len(queues[r]) :
    /\ queues[r][i].txn_id_ = t
    /\ queues[r][i].lock_mode_ = mode
    /\ queues[r][i].granted_

\* C1: in every reachable state, a granted EXCLUSIVE request on a rid is the
\* only granted request on that rid.
ExclusiveIsAlone ==
  \A r \in Rids : \A i, j \in Requests(r) :
    ( /\ i # j
      /\ request_queue[r][i].granted_
      /\ request_queue[r][i].lock_mode_ = "EXCLUSIVE" )
    => ~request_queue[r][j].granted_

\* C2: a step in which LockUpgrade(t, r) is granted leaves no other
\* transaction with a granted request on r (the upgrade blocks until every
\* other holder has unlocked).
UpgradeWaitsForHolders ==
  [][\A t \in Txns :
       ( /\ pc[t].op = "LockUpgrade"
         /\ pc'[t] = Idle
         /\ pc[t].rid \in exclusive_lock_set'[t] )
       => \A i \in 1..Len(request_queue'[pc[t].rid]) :
            request_queue'[pc[t].rid][i].granted_
              => request_queue'[pc[t].rid][i].txn_id_ = t]_vars

\* C3: no wake-up of a deadlock victim is lost: once the detector has ended
\* its pass, no transaction it aborted is asleep on a condition variable
\* (blocked in wait with no notification to come).
VictimIsWoken ==
  \A t \in Txns : ~(dpc = "sleep" /\ state[t] = "ABORTED" /\ pc[t].at = "asleep")

RECURSIVE Closure(_, _, _)
\* The vertices of S reachable from the set R along edges of wf, R included.
Closure(wf, S, R) ==
  LET R2 == R \cup {w \in S : \E u \in R : w \in wf[u]}
  IN IF R2 = R THEN R ELSE Closure(wf, S, R2)

\* v lies on a cycle of wf all of whose vertices are in S.
OnCycleWithin(wf, S, v) == v \in S /\ v \in Closure(wf, S, wf[v] \cap S)

Acyclic(wf) == \A v \in DOMAIN wf : ~OnCycleWithin(wf, DOMAIN wf, v)

\* C4: when has_cycle returns true, the id it reports is on a cycle of the
\* waits-for graph and is the largest id of that cycle.
VictimIsYoungestOnCycle ==
  cycle_result.found =>
    OnCycleWithin(waits_for, {u \in Vertices : u <= cycle_result.txn_id},
                  cycle_result.txn_id)

\* C5: when the detector releases latch_, the waits-for graph projected from
\* the lock table over the non-aborted transactions has no cycle.
DetectorLeavesNoCycle ==
  [][(dpc = "loop" /\ dpc' = "sleep")
       => Acyclic(RebuildWaitsForGraph(request_queue, state))]_vars

Incompatible(m1, m2) == m1 = "EXCLUSIVE" \/ m2 = "EXCLUSIVE"

\* The request at position j of queue r is granted by this step.
GrantedNow(r, j) ==
  /\ request_queue'[r][j].granted_
  /\ ~HoldsGranted(request_queue, request_queue'[r][j].txn_id_, r,
                   request_queue'[r][j].lock_mode_)

\* C6: FIFO: no request is granted while an earlier-positioned ungranted
\* request of an incompatible mode is in the same queue.
FIFOGrant ==
  [][\A r \in Rids : \A j \in 1..Len(request_queue'[r]) :
       GrantedNow(r, j)
         => \A i \in 1..(j - 1) :
              ~( /\ ~request_queue'[r][i].granted_
                 /\ Incompatible(request_queue'[r][i].lock_mode_,
                                 request_queue'[r][j].lock_mode_) )]_vars

\* The queue [A(S, granted), B(X, waiting), C(S, waiting)], C asleep behind B.
FIFOWitness ==
  \E r \in Rids :
    /\ Len(request_queue[r]) = 3
    /\ request_queue[r][1].lock_mode_ = "SHARED" /\ request_queue[r][1].granted_
    /\ request_queue[r][2].lock_mode_ = "EXCLUSIVE" /\ ~request_queue[r][2].granted_
    /\ request_queue[r][3].lock_mode_ = "SHARED" /\ ~request_queue[r][3].granted_
    /\ pc[request_queue[r][3].txn_id_].at = "asleep"

\* C7: a waiter whose request is grantable has been woken: no transaction
\* that is not aborted is asleep on a queue while CanGrantLock holds for it.
GrantableIsAwake ==
  \A t \in Txns :
    (pc[t].at = "asleep" /\ state[t] # "ABORTED")
      => ~CanGrantLock(request_queue[pc[t].rid], LockMode(pc[t].op), t)

\* Transaction t gains no lock in this step.
GainsNoLock(t) ==
  /\ shared_lock_set'[t] \subseteq shared_lock_set[t]
  /\ exclusive_lock_set'[t] \subseteq exclusive_lock_set[t]
  /\ \A r \in Rids : \A m \in {"SHARED", "EXCLUSIVE"} :
       HoldsGranted(request_queue', t, r, m) => HoldsGranted(request_queue, t, r, m)

LockCall(t, r) == LockShared(t, r) \/ LockExclusive(t, r) \/ LockUpgrade(t, r)

\* C8: under REPEATABLE_READ a lock call by a SHRINKING transaction sets its
\* state to ABORTED and fails with LOCK_ON_SHRINKING, the queues untouched;
\* no step grants a lock to a SHRINKING REPEATABLE_READ transaction.
ShrinkingLockAborts ==
  [][\A t \in Txns :
       (iso[t] = "REPEATABLE_READ" /\ state[t] = "SHRINKING")
         => /\ GainsNoLock(t)
            /\ \A r \in Rids :
                 LockCall(t, r)
                   => /\ state'[t] = "ABORTED"
                      /\ abort_reason'[t] = "LOCK_ON_SHRINKING"
                      /\ UNCHANGED <<request_queue, upgrading, pc>>]_vars

\* A REPEATABLE_READ transaction aborted with LOCK_ON_SHRINKING.
ShrinkingLockWitness ==
  \E t \in Txns :
    /\ iso[t] = "REPEATABLE_READ"
    /\ state[t] = "ABORTED"
    /\ abort_reason[t] = "LOCK_ON_SHRINKING"

\* C9: LockShared by a READ_UNCOMMITTED transaction sets its state to ABORTED
\* and fails with LOCKSHARED_ON_READ_UNCOMMITTED; no queue and no lock set
\* changes.
ReadUncommittedSharedAborts ==
  [][\A t \in Txns : \A r \in Rids :
       (iso[t] = "READ_UNCOMMITTED" /\ LockShared(t, r))
         => /\ state'[t] = "ABORTED"
            /\ abort_reason'[t] = "LOCKSHARED_ON_READ_UNCOMMITTED"
            /\ UNCHANGED <<request_queue, upgrading, shared_lock_set,
                           exclusive_lock_set, pc>>]_vars

\* A READ_UNCOMMITTED transaction aborted by LockShared on a rid it holds in
\* exclusive mode.
ReadUncommittedWitness ==
  \E t \in Txns :
    /\ iso[t] = "READ_UNCOMMITTED"
    /\ abort_reason[t] = "LOCKSHARED_ON_READ_UNCOMMITTED"
    /\ exclusive_lock_set[t] # {}

\* A second call for a mode the transaction holds on the rid.
RepeatedLock(t, r) ==
  \/ r \in shared_lock_set[t] /\ LockShared(t, r)
  \/ r \in exclusive_lock_set[t] /\ LockExclusive(t, r)

\* The call returns true with nothing changed.
ReturnsWithNoEffect ==
  UNCHANGED <<request_queue, upgrading, shared_lock_set, exclusive_lock_set, state,
              pc, abort_reason>>

\* C10 as stated: a second LockShared or LockExclusive for a mode already
\* held returns true and changes neither the queue, the lock sets nor the
\* state.
LockIdempotence ==
  [][\A t \in Txns : \A r \in Rids : RepeatedLock(t, r) => ReturnsWithNoEffect]_vars

\* C10 amended: the same, for a caller that is not SHRINKING (which the
\* entry checks reject first: LockShared under REPEATABLE_READ, LockExclusive
\* at every level).
LockIdempotenceWhenNotShrinking ==
  [][\A t \in Txns : \A r \in Rids :
       (RepeatedLock(t, r) /\ state[t] # "SHRINKING") => ReturnsWithNoEffect]_vars

\* A running, not SHRINKING transaction that holds one rid in shared and one
\* in exclusive mode: both repeated calls can be issued.
LockIdempotenceWitness ==
  \E t \in Txns :
    /\ Running(t)
    /\ state[t] = "GROWING"
    /\ shared_lock_set[t] # {}
    /\ exclusive_lock_set[t] # {}

\* A LockUpgrade of t is waiting in the queue of r: its request is an
\* ungranted upgrade.
UpgradeInFlight(t, r) ==
  /\ pc[t].op = "LockUpgrade"
  /\ pc[t].rid = r
  /\ pc[t].at \in {"checked", "asleep", "woken"}

\* C11: a LockUpgrade that finds upgrading_ set on the queue aborts the
\* caller with UPGRADE_CONFLICT and leaves the queue and the flag unchanged;
\* at most one upgrade waits in a queue, and the flag is set while it does.
UpgradeConflictAborts ==
  /\ [][\A t \in Txns :
          ( /\ pc[t].at = "mutex"
            /\ pc[t].op = "LockUpgrade"
            /\ upgrading[pc[t].rid]
            /\ Enqueue(t) )
          => /\ state'[t] = "ABORTED"
             /\ abort_reason'[t] = "UPGRADE_CONFLICT"
             /\ pc'[t] = Idle
             /\ UNCHANGED <<request_queue, upgrading, shared_lock_set,
                            exclusive_lock_set>>]_vars
  /\ [](\A r \in Rids : \A t, u \in Txns :
          (UpgradeInFlight(t, r) /\ UpgradeInFlight(u, r)) => (t = u /\ upgrading[r]))

\* A transaction aborted with UPGRADE_CONFLICT while another upgrade waits.
UpgradeConflictWitness ==
  \E t, u \in Txns : \E r \in Rids :
    /\ abort_reason[t] = "UPGRADE_CONFLICT"
    /\ state[t] = "ABORTED"
    /\ UpgradeInFlight(u, r)
    /\ r \in shared_lock_set[t]

\* C12: Unlock(t, r) moves t from GROWING to SHRINKING under REPEATABLE_READ
\* and otherwise leaves its state unchanged, changes no other transaction's
\* state, and removes t's request from the queue of r and r from both lock
\* sets of t.
UnlockStateChange ==
  [][\A t \in Txns : \A r \in Rids :
       Unlock(t, r)
         => /\ state'[t] = IF iso[t] = "REPEATABLE_READ" /\ state[t] = "GROWING"
                           THEN "SHRINKING" ELSE state[t]
            /\ \A u \in Txns \ {t} : state'[u] = state[u]
            /\ FindRequest(request_queue'[r], t) = 0
            /\ Len(request_queue'[r]) = Len(request_queue[r]) - 1
            /\ r \notin shared_lock_set'[t] \cup exclusive_lock_set'[t]]_vars

\* A READ_COMMITTED transaction that is still GROWING after it was granted a
\* lock and unlocked it.
UnlockStateWitness ==
  \E t \in Txns :
    /\ iso[t] = "READ_COMMITTED"
    /\ state[t] = "GROWING"
    /\ pc[t] = Idle
    /\ calls[t] > 0
    /\ shared_lock_set[t] \cup exclusive_lock_set[t] = {}
    /\ \A r \in Rids : FindRequest(request_queue[r], t) = 0

---------------------------------------------------------------------------
\* Properties of the buffer pool.

Pinned == {f \in Frames : pages_[f].pin_count_ > 0}

AllPinned == Pinned = Frames

\* C13: every frame whose pin count is greater than 0 is absent from the
\* replacer.
PinnedNotInReplacer == \A f \in Pinned : f \notin Elems(lis_)

\* A fetch has just pinned a frame while the pool has no free frame and the
\* other frame waits in the replacer.
PinnedNotInReplacerWitness ==
  /\ ret = Return("FetchPage", TRUE)
  /\ free_list_ = <<>>
  /\ Pinned # {}
  /\ lis_ # <<>>
  /\ next_page_id = MaxPages

\* C14: the free list, the replacer and the pinned frames are pairwise
\* disjoint and together cover the frame array.
FramesPartitioned ==
  /\ Elems(free_list_) \cap Elems(lis_) = {}
  /\ Elems(free_list_) \cap Pinned = {}
  /\ Elems(lis_) \cap Pinned = {}
  /\ Elems(free_list_) \cup Elems(lis_) \cup Pinned = Frames
  /\ Len(free_list_) + Size(lis_) + Cardinality(Pinned) = PoolSize

\* The frame a successful FetchPage(p) / NewPage of this step returns.
Reused(f) == pages_'[f].page_id_ # pages_[f].page_id_

\* C15: a step of FetchPage or NewPage that reuses a frame holding a dirty
\* page leaves that page's data on disk, and a FetchPage returns the data the
\* page had at its last unpin with is_dirty.
DirtyWrittenBeforeReuse ==
  [][/\ ((\E p \in PageIds : FetchPage(p)) \/ NewPage)
          => \A f \in Frames :
               (Reused(f) /\ pages_[f].is_dirty_ /\ pages_[f].page_id_ \in PageIds)
                 => disk'[pages_[f].page_id_] = pages_[f].data
     /\ \A p \in PageIds :
          (FetchPage(p) /\ ret'.ok /\ dirty_data[p] # NoData)
            => pages_'[page_table_'[p]].data = dirty_data[p]]_bpmVars

\* A page written and unpinned dirty has been evicted and fetched again, while
\* another page written and unpinned dirty is on disk only.
DirtyWrittenWitness ==
  /\ ret = Return("FetchPage", TRUE)
  /\ \E p \in DOMAIN page_table_ : \E q \in PageIds \ DOMAIN page_table_ :
       /\ dirty_data[p] = 1
       /\ pages_[page_table_[p]].data = 1
       /\ ~pages_[page_table_[p]].is_dirty_
       /\ pages_[page_table_[p]].pin_count_ = 1
       /\ dirty_data[q] = 1
       /\ disk[q] = 1

PoolUnchanged == UNCHANGED <<pages_, page_table_, free_list_, lis_, disk, next_page_id>>

\* C16: with every frame pinned, FetchPage of a page that is not resident and
\* NewPage return none, allocate no page id and change nothing of the pool;
\* with a frame that is not pinned they succeed.
ExhaustedPoolReturnsNone ==
  [][/\ \A p \in PageIds :
          (FetchPage(p) /\ p \notin DOMAIN page_table_)
            => IF AllPinned THEN ret' = Return("FetchPage", FALSE) /\ PoolUnchanged
               ELSE ret' = Return("FetchPage", TRUE) /\ p \in DOMAIN page_table_'
     /\ NewPage
          => IF AllPinned THEN ret' = Return("NewPage", FALSE) /\ PoolUnchanged
             ELSE /\ ret' = Return("NewPage", TRUE)
                  /\ next_page_id' = next_page_id + 1
                  /\ next_page_id \in DOMAIN page_table_']_bpmVars

\* NewPage has just returned none from a pool whose frames are all pinned.
ExhaustedPoolWitness ==
  /\ ret = Return("NewPage", FALSE)
  /\ AllPinned
  /\ next_page_id = PoolSize

\* C17: DeletePage(p) returns true and changes nothing when p is not
\* resident, returns false and changes nothing when p is pinned, and
\* otherwise unmaps p, clears the frame's metadata and leaves the frame on the
\* free list and in no other structure of the pool, returning true.
DeletePageContract ==
  [][\A p \in PageIds :
       DeletePage(p)
         => IF p \notin DOMAIN page_table_
            THEN ret' = Return("DeletePage", TRUE) /\ PoolUnchanged
            ELSE IF pages_[page_table_[p]].pin_count_ # 0
            THEN ret' = Return("DeletePage", FALSE) /\ PoolUnchanged
            ELSE LET f == page_table_[p] IN
                 /\ ret' = Return("DeletePage", TRUE)
                 /\ p \notin DOMAIN page_table_'
                 /\ pages_'[f].page_id_ = INVALID_PAGE_ID
                 /\ pages_'[f].pin_count_ = 0
                 /\ ~pages_'[f].is_dirty_
                 /\ f \in Elems(free_list_')
                 /\ f \notin Elems(lis_')]_bpmVars

\* C18: every page-table entry p -> f points to a frame that holds p, no two
\* pages map to the same frame, no mapped frame is on the free list, and every
\* frame not on the free list holds a page that is mapped to it.
PageTableAgrees ==
  /\ \A p \in DOMAIN page_table_ :
       /\ page_table_[p] \in Frames
       /\ pages_[page_table_[p]].page_id_ = p
       /\ page_table_[p] \notin Elems(free_list_)
  /\ \A p, q \in DOMAIN page_table_ : page_table_[p] = page_table_[q] => p = q
  /\ \A f \in Frames \ Elems(free_list_) :
       /\ pages_[f].page_id_ \in DOMAIN page_table_
       /\ page_table_[pages_[f].page_id_] = f

\* Every frame is mapped after the pool has evicted a page.
PageTableWitness ==
  /\ Cardinality(DOMAIN page_table_) = PoolSize
  /\ free_list_ = <<>>
  /\ next_page_id = MaxPages
  /\ ret = Return("NewPage", TRUE)

---------------------------------------------------------------------------
\* Properties of the replacer.

\* The frame of the replacer that entered it first.
Oldest(l) == CHOOSE f \in Elems(l) : \A g \in Elems(l) : entry_time[f] <= entry_time[g]

\* C19: Victim returns and removes the frame that entered the replacer first
\* and returns false on an empty replacer; Unpin of a frame in the replacer
\* and Pin of a frame not in it change nothing; the size stays within the
\* capacity.
VictimIsOldest ==
  /\ [][/\ Victim
             => IF lis_ = <<>>
                THEN ~ret'.ok /\ lis_' = lis_
                ELSE /\ ret'.ok
                     /\ ret'.frame_id = Oldest(lis_)
                     /\ Elems(lis_') = Elems(lis_) \ {Oldest(lis_)}
                     /\ Size(lis_') = Size(lis_) - 1
        /\ \A f \in ReplacerFrames :
             ((Unpin(f) /\ f \in Elems(lis_)) \/ (Pin(f) /\ f \notin Elems(lis_)))
               => lis_' = lis_]_bpmVars
  /\ [](Size(lis_) <= cap_ /\ Len(lis_) = Size(lis_))

\* Victim has just returned a frame from a replacer that frames had left and
\* entered again.
VictimIsOldestWitness ==
  /\ ret.op = "Victim"
  /\ ret.ok
  /\ lis_ # <<>>
  /\ clock = MaxClock
  /\ entry_time[ret.frame_id] = 0
  /\ \E f \in Elems(lis_) : f < ret.frame_id

\* C20: after any sequence of Insert and Remove calls of one thread, GetValue
\* of a key returns the value the abstract map holds for it (the map obtained
\* from the same calls, an Insert of a key that has a value and a Remove of a
\* key that has none being ignored), and finds nothing for a key the map does
\* not hold.
GetValueRefinesMap ==
  [][\A key \in Keys :
       IndexGetValue(key) =>
         /\ tree_ret'.status = "ok"
         /\ tree_ret'.found = (index_map[key] # NoValue)
         /\ tree_ret'.found => tree_ret'.value = index_map[key]]_treeVars

\* Whether a lookup finds the key in the tree as it is.
KeyInTree(key) == TreeGetValue(Tree, key).found

\* C21: Insert of a key that is not in the tree returns true, and a GetValue
\* that follows it finds the key with the value inserted; Insert returns false
\* only for a key that is in the tree.
InsertFalseOnlyWhenPresent ==
  [][\A key \in Keys, value \in Values :
       (IndexInsert(key, value) /\ ~KeyInTree(key)) =>
         /\ tree_ret'.status = "ok"
         /\ tree_ret'.found
         /\ TreeGetValue(Tree, key)' = GetValueResult("ok", TRUE, value)]_treeVars

\* The nodes of the subtree below page id: the pages reached through the child
\* slots in use.
RECURSIVE Subtree(_, _, _)
Subtree(pages, id, depth) ==
  IF ~IsNode(pages, id) \/ depth = 0 THEN {}
  ELSE IF IsLeafPage(pages[id]) THEN {id}
  ELSE {id} \cup UNION {Subtree(pages, pages[id].array[i].second, depth - 1) :
                          i \in 0..(pages[id].size_ - 1)}

TreeNodes ==
  IF root_page_id_ = INVALID_PAGE_ID THEN {}
  ELSE Subtree(tree_pages, root_page_id_, MaxTreePages)

TreeLeaves == {id \in TreeNodes : IsLeafPage(tree_pages[id])}

\* The slots in use of the tree's leaves.
LeafSlots == {s \in TreeLeaves \X Slots : s[2] < tree_pages[s[1]].size_}

KeyOfSlot(s) == tree_pages[s[1]].array[s[2]].first

NoKeyTwice ==
  \A s1, s2 \in LeafSlots : s1 # s2 => KeyOfSlot(s1) # KeyOfSlot(s2)

\* C22: Insert of a key that is in the tree returns false and changes no page,
\* no size, not the root and allocates no page; and no tree left by a call
\* holds a key in two slots.
KeysAreUnique ==
  /\ [][\A key \in Keys, value \in Values :
          (IndexInsert(key, value) /\ KeyInTree(key)) =>
            /\ tree_ret'.status = "ok"
            /\ ~tree_ret'.found
            /\ tree_pages' = tree_pages
            /\ root_page_id_' = root_page_id_
            /\ tree_next_page_id' = tree_next_page_id]_treeVars
  /\ [](Alive => NoKeyTwice)

\* An Insert has returned false while every key is in the tree.
DuplicateInsertWitness ==
  /\ tree_ret = IndexReturn("Insert", TRUE, FALSE, NoValue)
  /\ \A key \in tree_scope.keys : KeyInTree(key)

\* The leaves visited by following next_page_id_ from the leaf at page id, in
\* the order visited; the walk ends at INVALID_PAGE_ID, at a page that is no
\* leaf, or after depth leaves.
RECURSIVE LeafChainFrom(_, _, _)
LeafChainFrom(pages, id, depth) ==
  IF depth = 0 \/ ~IsNode(pages, id) THEN <<>>
  ELSE IF ~IsLeafPage(pages[id]) THEN <<>>
  ELSE <<id>> \o LeafChainFrom(pages, pages[id].next_page_id_, depth - 1)

LeafChain ==
  LeafChainFrom(tree_pages,
                FindLeafPage(tree_pages, root_page_id_, 0, TRUE, MaxTreePages),
                MaxTreePages + 1)

\* The keys in the slots in use of a leaf, in slot order.
LeafKeys(n) == [i \in 1..n.size_ |-> n.array[i - 1].first]

RECURSIVE ChainKeys(_)
ChainKeys(chain) ==
  IF chain = <<>> THEN <<>>
  ELSE LeafKeys(tree_pages[Head(chain)]) \o ChainKeys(Tail(chain))

\* C23: after every completed Insert and Remove, the walk along next_page_id_
\* from the leftmost leaf visits each leaf of the tree once and ends at a leaf
\* whose next_page_id_ is invalid, and the keys met on the way are strictly
\* ascending.
LeafChainAscending ==
  (Alive /\ root_page_id_ # INVALID_PAGE_ID) =>
    LET chain == LeafChain
        keys == ChainKeys(chain)
    IN /\ chain # <<>>
       /\ tree_pages[chain[Len(chain)]].next_page_id_ = INVALID_PAGE_ID
       /\ {chain[i] : i \in 1..Len(chain)} = TreeLeaves
       /\ Len(chain) = Cardinality(TreeLeaves)
       /\ \A i, j \in 1..Len(keys) : i < j => keys[i] < keys[j]

\* A Remove has merged two leaves (a leaf page is no longer in the tree) and
\* the tree still has several leaves.
LeafChainWitness ==
  /\ tree_ret = IndexReturn("Remove", TRUE, FALSE, NoValue)
  /\ Len(LeafChain) >= 2
  /\ \E id \in TreePageIds : IsLeafPage(tree_pages[id]) /\ id \notin TreeLeaves

\* C24: after every completed Insert and Remove, every node of the tree but
\* the root holds at least min_size = ceil(max_size / 2) and fewer than
\* max_size entries.
NodeSizeBounds ==
  Alive =>
    \A id \in TreeNodes \ {root_page_id_} :
      /\ GetMinSize(tree_pages[id]) <= tree_pages[id].size_
      /\ tree_pages[id].size_ < tree_pages[id].max_size_

\* C24 as amended: the bounds hold when leaf_max_size_ and internal_max_size_
\* are even.
NodeSizeBoundsEven ==
  (Alive /\ leaf_max_size_ % 2 = 0 /\ internal_max_size_ % 2 = 0) =>
    \A id \in TreeNodes \ {root_page_id_} :
      /\ GetMinSize(tree_pages[id]) <= tree_pages[id].size_
      /\ tree_pages[id].size_ < tree_pages[id].max_size_

\* A Remove has completed on a tree of even max size with two leaves, the
\* left one keeping in its first unused slot the entry that is now the first
\* of the right one (given up in a redistribution or moved by a split).
NodeSizeBoundsWitness ==
  /\ tree_ret = IndexReturn("Remove", TRUE, FALSE, NoValue)
  /\ leaf_max_size_ % 2 = 0
  /\ Len(LeafChain) = 2
  /\ LET left == tree_pages[LeafChain[1]]
         right == tree_pages[LeafChain[2]]
     IN left.array[left.size_] = right.array[0]

\* C25: GetValue of a key that is not in the tree returns, finds nothing and
\* changes no node; Remove of such a key returns and changes no node; on every
\* tree, the empty tree included.
AbsentKeyNoEffect ==
  [][\A key \in Keys :
       ~KeyInTree(key) =>
         /\ IndexGetValue(key) =>
              /\ tree_ret'.status = "ok"
              /\ ~tree_ret'.found
              /\ UNCHANGED <<tree_pages, root_page_id_>>
         /\ IndexRemove(key) =>
              /\ tree_ret'.status = "ok"
              /\ UNCHANGED <<tree_pages, root_page_id_>>]_treeVars

\* The structure of the subtree below page id without its page ids: a leaf is
\* its pairs in slot order, an internal node its separator keys (the key of
\* slot 0 is unused) and the structures of its children.
RECURSIVE Shape(_, _, _)
Shape(pages, id, depth) ==
  IF ~IsNode(pages, id) \/ depth = 0 THEN <<"none">>
  ELSE IF IsLeafPage(pages[id])
  THEN <<"leaf", [i \in 1..pages[id].size_ |-> pages[id].array[i - 1]]>>
  ELSE <<"internal",
         [i \in 1..(pages[id].size_ - 1) |-> pages[id].array[i].first],
         [i \in 1..pages[id].size_ |->
            Shape(pages, pages[id].array[i - 1].second, depth - 1)]>>

TreeShape(s) ==
  IF s.root_page_id = INVALID_PAGE_ID THEN <<"empty">>
  ELSE Shape(s.pages, s.root_page_id, MaxTreePages)

\* Insert(key, value) followed by Remove(key), on the tree as it is.
RoundTrip(key, value) == TreeRemove(TreeInsert(Tree, key, value).tree, key)

\* The round trips the claim is about: the key is not in the tree, and the
\* pages Insert allocates are among the pages explored.
RoundTripCase(key, value) ==
  /\ Alive
  /\ ~KeyInTree(key)
  /\ TreeInsert(Tree, key, value).tree.next_page_id <= MaxTreePages + 1

\* C26: after Insert(key, value) and Remove(key) of a key that was not in the
\* tree, GetValue(key) finds nothing and the tree has the structure it had
\* before the pair, whether or not the Insert split a node.
RoundTripIdentical ==
  \A key \in tree_scope.keys, value \in tree_scope.values :
    RoundTripCase(key, value) =>
      /\ RoundTrip(key, value).defined
      /\ TreeGetValue(RoundTrip(key, value), key) = GetValueResult("ok", FALSE, NoValue)
      /\ TreeShape(RoundTrip(key, value)) = TreeShape(Tree)

\* ---- index_iterator.cpp over the tree as it is ----

\* BPlusTree::begin: the leftmost leaf, slot 0.
begin == IndexIterator(FindLeafPage(tree_pages, root_page_id_, 0, TRUE, MaxTreePages), 0)

\* BPlusTree::Begin(key): the leaf the key belongs to, at KeyIndex(key).
Begin(key) ==
  LET page_id == FindLeafPage(tree_pages, root_page_id_, key, FALSE, MaxTreePages) IN
  IndexIterator(page_id,
                IF IsNode(tree_pages, page_id) THEN LeafBiSearch(tree_pages[page_id], key)
                ELSE 0)

\* Whether operator* reads a slot in use of a leaf.
ValidSlot(it) ==
  /\ IsNode(tree_pages, it.page_)
  /\ IsLeafPage(tree_pages[it.page_])
  /\ it.idx_ < tree_pages[it.page_].size_

\* The positions at which the loop  for (; !it.isEnd(); ++it) *it  reads an
\* item.  The loop is followed up to the first position that is not a slot in
\* use, and for at most fuel positions.
RECURSIVE Visits(_, _)
Visits(it, fuel) ==
  IF fuel = 0 THEN <<>>
  ELSE IF ~ValidSlot(it)
  THEN IF IsNode(tree_pages, it.page_) /\ isEnd(it) THEN <<>> ELSE <<it>>
  ELSE <<it>> \o Visits(Increment(it), fuel - 1)

\* More positions than the leaves of the pages explored have slots.
MaxVisits == MaxTreePages * MaxNodeSize + 1

TreeKeys == {KeyOfSlot(s) : s \in LeafSlots}

\* The iteration from it reads slots in use only, and the keys read are the
\* keys of the tree from key upwards in ascending order.
YieldsKeysFrom(it, key) ==
  LET v == Visits(it, MaxVisits) IN
  /\ \A i \in 1..Len(v) : ValidSlot(v[i])
  /\ \A i \in 1..(Len(v) - 1) :
       tree_pages[v[i].page_].array[v[i].idx_].first
         < tree_pages[v[i + 1].page_].array[v[i + 1].idx_].first
  /\ {tree_pages[v[i].page_].array[v[i].idx_].first : i \in 1..Len(v)}
       = {k \in TreeKeys : k >= key}

\* C27: on a tree that holds a key, the iteration from Begin(key), for a key in
\* the tree or not, reads only slots in use and yields the keys of the tree
\* that are >= key, each once and ascending; the iteration from begin() yields
\* all keys of the tree.
IteratorYieldsKeys ==
  (Alive /\ root_page_id_ # INVALID_PAGE_ID) =>
    /\ YieldsKeysFrom(begin, 0)
    /\ \A key \in Keys : YieldsKeysFrom(Begin(key), key)

\* ---- the remove scenario on leaf max size 4 ----

\* A leaf's structure with the given keys, each with the value 1.
LeafOf(keys) == <<"leaf", [i \in 1..Len(keys) |-> [first |-> keys[i], second |-> 1]]>>

\* An internal root with one separator key over two leaves.
TwoLeaves(key, left, right) == <<"internal", <<key>>, <<LeafOf(left), LeafOf(right)>>>>

\* The tree of the scenario: leaf max size 4, root key 3 over [0,1,2] and [3,4].
ScenarioTree ==
  /\ Alive
  /\ leaf_max_size_ = 4
  /\ TreeShape(Tree) = TwoLeaves(3, <<0, 1, 2>>, <<3, 4>>)

\* The tree the claim expects after Remove(3): the right leaf keeps one key.
ScenarioNoAction ==
  /\ Alive
  /\ leaf_max_size_ = 4
  /\ TreeShape(Tree) = TwoLeaves(3, <<0, 1, 2>>, <<4>>)

\* The tree after Remove(3) with a redistribution: key 2 moved to the right
\* leaf and became the root's key.
ScenarioRedistributed ==
  /\ Alive
  /\ leaf_max_size_ = 4
  /\ TreeShape(Tree) = TwoLeaves(2, <<0, 1>>, <<2, 4>>)

\* The tree at the end of the scenario: the leaf [0,1,2] is the root.
ScenarioSingleLeaf ==
  /\ Alive
  /\ TreeShape(Tree) = LeafOf(<<0, 1, 2>>)

\* C28: in the scenario's tree Remove(3) leaves the right leaf with the one
\* key 4, without merge or redistribution, and the left leaf [0,1,2]; then
\* Remove(4) merges the right leaf into the left one and the leaf [0,1,2]
\* becomes the root.
RemoveScenario ==
  /\ [][(ScenarioTree /\ IndexRemove(3)) => ScenarioNoAction']_treeVars
  /\ [][(ScenarioNoAction /\ IndexRemove(4)) => ScenarioSingleLeaf']_treeVars

\* C28 as amended: in the scenario's tree Remove(3) leaves the right leaf
\* under min_size 2, and the last entry of the left leaf moves over: leaves
\* [0,1] and [2,4] under root key 2; then Remove(4) merges the right leaf into
\* the left one and the leaf [0,1,2] becomes the root.
RemoveScenarioRedistributes ==
  /\ [][(ScenarioTree /\ IndexRemove(3)) => ScenarioRedistributed']_treeVars
  /\ [][(ScenarioRedistributed /\ IndexRemove(4)) => ScenarioSingleLeaf']_treeVars

\* The end of the scenario: a Remove has left the single leaf [0,1,2], and the
\* pages left behind are the right leaf after the redistribution and the
\* Remove of 4, and the old root with key 2.
RemoveScenarioWitness ==
  /\ ScenarioSingleLeaf
  /\ tree_ret = IndexReturn("Remove", TRUE, FALSE, NoValue)
  /\ \E leaf, root \in TreePageIds \ TreeNodes :
       /\ IsLeafPage(tree_pages[leaf])
       /\ tree_pages[leaf].array[0].first = 2
       /\ tree_pages[leaf].array[1].first = 4
       /\ ~IsLeafPage(tree_pages[root])
       /\ tree_pages[root].array[1] = [first |-> 2, second |-> leaf]

\* C29: after every completed Insert and Remove, the first key of every leaf
\* that is not the leftmost child of its parent is the key the parent holds
\* for it.
SeparatorIsFirstKey ==
  Alive =>
    \A id \in TreeNodes \ TreeLeaves : \A i \in 1..(tree_pages[id].size_ - 1) :
      LET child == tree_pages[id].array[i].second IN
      (IsNode(tree_pages, child) /\ IsLeafPage(tree_pages[child])) =>
        tree_pages[child].array[0].first = tree_pages[id].array[i].first

\* ---- the calls of the threads against the calls one after the other ----

\* The orders in which the threads' calls can be put.
Orders ==
  {o \in [1..tree_scope.calls -> ActiveThreads] :
     \A i, j \in 1..tree_scope.calls : o[i] = o[j] => i = j}

\* The call of a thread on the tree s by one thread alone: the tree after it
\* and what it returns.
SeqCall(s, th) ==
  IF th.op = "Insert"
  THEN [tree |-> TreeInsert(s, th.key, th.value).tree,
        found |-> TreeInsert(s, th.key, th.value).ret, value |-> NoValue]
  ELSE IF th.op = "Remove"
  THEN [tree |-> TreeRemove(s, th.key), found |-> FALSE, value |-> NoValue]
  ELSE [tree |-> IF TreeGetValue(s, th.key).status = "ok" THEN s ELSE Undefined(s),
        found |-> TreeGetValue(s, th.key).found, value |-> TreeGetValue(s, th.key).value]

\* The calls of the threads o[i], o[i+1], ... one after the other from the
\* tree s: whether each returned what its thread got, and the tree at the end.
RECURSIVE SeqRun(_, _, _)
SeqRun(s, o, i) ==
  IF i > tree_scope.calls THEN [tree |-> s, same |-> TRUE]
  ELSE LET c == SeqCall(s, threads[o[i]])
           rest == SeqRun(c.tree, o, i + 1)
       IN [tree |-> rest.tree,
           same |-> /\ c.tree.defined
                    /\ c.found = threads[o[i]].found
                    /\ c.value = threads[o[i]].result
                    /\ rest.same]

\* The calls in the order o explain what the threads got and what the tree
\* holds.
ExplainedBy(o) ==
  LET run == SeqRun(start_tree, o, 1) IN
  /\ run.same
  /\ \A key \in Keys : TreeGetValue(run.tree, key) = TreeGetValue(Tree, key)

AllReturned == \A t \in ActiveThreads : threads[t].pc = "returned"

\* C30: when the calls of all threads have returned, what they returned and
\* what GetValue finds in the tree are those of the calls in some order one
\* after the other, no key is in two slots and the leaf chain is ascending.
ConcurrentCallsLinearizable ==
  (Alive /\ AllReturned) =>
    /\ \E o \in Orders : ExplainedBy(o)
    /\ NoKeyTwice
    /\ LeafChainAscending

\* ---- latches and the pages a call changes ----

\* The pages of the tree whose content the step changes: pages handed out
\* before the step, not the pages the step itself gets from NewPage.
ChangedPages == {p \in TreePageIds : p < tree_next_page_id /\ tree_pages'[p] # tree_pages[p]}

\* C31: every page an Insert or a Remove changes is write-latched by the
\* calling thread when it is changed: the leaf, the parent, the sibling of a
\* merge or a redistribution, and the children whose parent pointer is
\* rewritten.
ChangesUnderWriteLatch ==
  [][\A t \in Threads :
       OnLeaf(t) => ChangedPages \subseteq Range(threads[t].page_set)]_treeVars

\* The pages above page id along parent_page_id_, as InsertIntoParent and
\* DeleteEntry find the parent of a node.
RECURSIVE AncestorsOf(_, _, _)
AncestorsOf(pages, id, depth) ==
  IF depth = 0 \/ ~IsNode(pages, id) \/ ~IsNode(pages, pages[id].parent_page_id_) THEN {}
  ELSE {pages[id].parent_page_id_} \cup AncestorsOf(pages, pages[id].parent_page_id_, depth - 1)

\* The step changes the entries of the page: a separator or a child is added,
\* removed or rewritten.
EntriesChange(p) ==
  \/ tree_pages'[p].size_ # tree_pages[p].size_
  \/ \E i \in 0..(tree_pages[p].size_ - 1) : tree_pages'[p].array[i] # tree_pages[p].array[i]

\* The leaf a writing thread has latched at the end of its descent.
LatchedLeaf(t) == threads[t].page_set[Len(threads[t].page_set)]

\* C32: an Insert or a Remove changes the entries of an ancestor of its leaf
\* (a split adds a separator, a merge or a redistribution removes or rewrites
\* one) only while the thread holds the write latch of that ancestor from its
\* descent: an ancestor released at a safe node is not changed.
AncestorsChangeUnderLatch ==
  [][\A t \in Threads :
       (OnLeaf(t) /\ threads[t].op # "GetValue") =>
         \A p \in AncestorsOf(tree_pages, LatchedLeaf(t), MaxTreePages) :
           EntriesChange(p) => p \in Range(threads[t].page_set)]_treeVars

\* ---- the root during a descent ----

\* Thread u holds a latch on the page that is the root.
HoldsRootLatch(u) ==
  \/ root_page_id_ \in Range(threads[u].page_set)
  \/ threads[u].rlatch = root_page_id_ /\ root_page_id_ # INVALID_PAGE_ID

\* Thread t latches the first page of its descent in this step.
LatchesFirstPage(t) == FetchAndLatch(t) /\ threads[t].first_loop /\ Alive'

\* C33: a thread that latches the first page of its descent goes on from it
\* only when it is the root at that moment; otherwise it holds no latch and
\* starts again with a new read of root_page_id_; and a step of one thread
\* does not change root_page_id_ while another thread holds a latch on the
\* root.
RootRace ==
  /\ [][\A t \in Threads :
          LatchesFirstPage(t) =>
            IF threads[t].page_id = root_page_id_
            THEN /\ threads'[t].pc \in {"fetch", "leaf"}
                 /\ threads[t].page_id \in
                      Range(threads'[t].page_set) \cup {threads'[t].rlatch}
            ELSE /\ threads'[t].pc = "find"
                 /\ threads'[t].page_set = <<>>
                 /\ threads'[t].rlatch = INVALID_PAGE_ID]_treeVars
  /\ [][root_page_id_' # root_page_id_ =>
          \A u \in Threads : threads'[u] = threads[u] => ~HoldsRootLatch(u)]_treeVars

\* ---- pins and latches ----

\* The pages some thread or the iterator holds a latch of.
LatchedPages == {p \in TreePageIds : WLatched(p) \/ RLatched(p)}

\* C34: every page that a thread or the iterator holds a latch of has a pin
\* count above 0, and the iterator, from its constructor to its destructor,
\* holds the read latch of the leaf it is on and of no other page, that leaf
\* being pinned; after the destructor it holds no latch.
LatchedPagePinned ==
  Alive =>
    /\ \A p \in LatchedPages : pin_count[p] > 0
    /\ iterator.state = "live" =>
         /\ iterator.rlatch = iterator.page_
         /\ pin_count[iterator.page_] > 0
    /\ iterator.state = "destroyed" => iterator.rlatch = INVALID_PAGE_ID

\* No thread is inside a call and no iterator is alive.
NoCallInFlight ==
  /\ \A t \in Threads : threads[t].pc \in {"idle", "returned"}
  /\ iterator.state # "live"

\* C36: when every call has returned and the iterator is destroyed, no page is
\* latched and every page has the pin count it had before the calls.
NoPinOrLatchLeaked ==
  (Alive /\ NoCallInFlight) =>
    /\ LatchedPages = {}
    /\ pin_count = start_tree.pins

\* ---- splits ----

\* The entries in use of a node, in slot order.
Entries(n) == [i \in 1..n.size_ |-> n.array[i - 1]]

\* The pages that the step gets from NewPage.
NewPages == {p \in TreePageIds : tree_next_page_id <= p /\ p < tree_next_page_id'}

\* A sequence without its j-th element.
Without(seq, j) == SubSeq(seq, 1, j - 1) \o SubSeq(seq, j + 1, Len(seq))

\* The new page r is the right half of the split of the node l: l existed
\* before, keeps its first min_size entries and r has the rest (the two
\* together are l's entries and the entry inserted); r's parent holds r under
\* r's first key, right after l, or in slot 0 when the parent was split
\* between the two; a leaf r is linked between l and l's former next leaf.
IsRightHalfOf(r, l) ==
  LET right == tree_pages'[r]
      left == tree_pages'[l]
      par == right.parent_page_id_
      i == ValueIndex(tree_pages'[par], r)
      lpar == left.parent_page_id_
      li == ValueIndex(tree_pages'[lpar], l)
      both == Entries(left) \o Entries(right)
  IN /\ IsNode(tree_pages, l)
     /\ IsNode(tree_pages', par)
     /\ IsNode(tree_pages', lpar)
     /\ ~IsLeafPage(tree_pages'[par])
     /\ right.page_type = tree_pages[l].page_type
     /\ left.size_ = GetMinSize(left)
     /\ right.size_ = left.max_size_ - GetMinSize(left)
     /\ \E j \in 1..Len(both) : Without(both, j) = Entries(tree_pages[l])
     /\ i < tree_pages'[par].size_
     /\ tree_pages'[par].array[i] = [first |-> right.array[0].first, second |-> r]
     /\ li < tree_pages'[lpar].size_
     /\ \/ lpar = par /\ i = li + 1
        \/ /\ par \in NewPages
           /\ i = 0
           /\ li = tree_pages'[lpar].size_ - 1
     /\ IsLeafPage(right) =>
          /\ left.next_page_id_ = r
          /\ right.next_page_id_ = tree_pages[l].next_page_id_

IsRightHalf(r) == \E l \in TreePageIds : l < tree_next_page_id /\ IsRightHalfOf(r, l)

\* The new page r is the root made for a split of the old root.
IsNewRoot(r) ==
  /\ r = root_page_id_'
  /\ ~IsLeafPage(tree_pages'[r])
  /\ IsRootPage(tree_pages'[r])
  /\ tree_pages'[r].size_ = 2
  /\ tree_pages'[r].array[0].second = root_page_id_
  /\ tree_pages'[r].array[1].second \in NewPages
  /\ IsRightHalfOf(tree_pages'[r].array[1].second, root_page_id_)

\* An Insert on a tree that has a root, from which the call comes back.
InsertStep ==
  /\ root_page_id_ # INVALID_PAGE_ID
  /\ \E key \in Keys, value \in Values : IndexInsert(key, value)
  /\ Alive'

\* C35: after an Insert no node has max_size entries or more; every page the
\* Insert allocated is the right half of a split of a node or, when the root
\* was split, the new internal root over the old root and its right half; the
\* root changes only in that way.  With leaf max size 4, the fourth of the
\* Inserts 1, 2, 3, 4 gives the root key 3 over the leaves [1,2] and [3,4], and
\* Insert(0) after them the leaves [0,1,2] and [3,4] under the same root key.
InsertSplits ==
  /\ [][InsertStep =>
          /\ \A p \in TreeNodes' : tree_pages'[p].size_ < tree_pages'[p].max_size_
          /\ \A r \in NewPages : IF r = root_page_id_' THEN IsNewRoot(r) ELSE IsRightHalf(r)
          /\ root_page_id_' # root_page_id_ => root_page_id_' \in NewPages]_treeVars
  /\ [][(/\ Alive
         /\ leaf_max_size_ = 4
         /\ tree_calls = 3
         /\ TreeShape(Tree) = LeafOf(<<1, 2, 3>>)
         /\ IndexInsert(4, 1))
        => TreeShape(Tree)' = TwoLeaves(3, <<1, 2>>, <<3, 4>>)]_treeVars
  /\ [][(/\ Alive
         /\ leaf_max_size_ = 4
         /\ tree_calls = 4
         /\ TreeShape(Tree) = TwoLeaves(3, <<1, 2>>, <<3, 4>>)
         /\ IndexInsert(0, 1))
        => TreeShape(Tree)' = TwoLeaves(3, <<0, 1, 2>>, <<3, 4>>)]_treeVars

\* The Inserts 1, 2, 3, 4, 0 on leaf max size 4 have been made.
InsertSplitsWitness ==
  /\ leaf_max_size_ = 4
  /\ tree_calls = 5
  /\ tree_ret = IndexReturn("Insert", TRUE, TRUE, NoValue)
  /\ TreeShape(Tree) = TwoLeaves(3, <<0, 1, 2>>, <<3, 4>>)
  /\ index_map = [k \in Keys |-> 1]

\* ---- requests and flags that outlive their call ----

\* Transaction t is inside a lock call that waits on the queue of r.
Blocked(t, r) == pc[t].at \in {"checked", "asleep", "woken"} /\ pc[t].rid = r

\* Transaction t holds no lock in its lock sets.
HoldsNothing(t) == shared_lock_set[t] = {} /\ exclusive_lock_set[t] = {}

\* C37: an ungranted request belongs to a transaction blocked in a lock call
\* on that record, or to a deadlock victim whose locks are still being
\* released; once a victim's call has failed with DEADLOCK and every record of
\* its lock sets is unlocked, no queue holds a request of the victim.
UngrantedRequestsAreBlocked ==
  /\ \A r \in Rids : \A i \in Requests(r) :
       LET t == request_queue[r][i].txn_id_ IN
       ~request_queue[r][i].granted_ =>
         \/ Blocked(t, r)
         \/ abort_reason[t] = "DEADLOCK" /\ ~HoldsNothing(t)
  /\ \A t \in Txns :
       (pc[t] = Idle /\ abort_reason[t] = "DEADLOCK" /\ HoldsNothing(t)) =>
         \A r \in Rids : FindRequest(request_queue[r], t) = 0

\* C38: the upgrading flag of a queue is set only while a transaction is
\* blocked in LockUpgrade on that queue.
UpgradingOnlyWhileBlocked ==
  \A r \in Rids :
    upgrading[r] => \E t \in Txns : pc[t].op = "LockUpgrade" /\ Blocked(t, r)

\* C39: no step of a LockRead call takes away a lock its transaction holds:
\* an EXCLUSIVE lock held during the call (LockRead acquires none, so it was
\* held before the call) is still held after the step, granted in the queue
\* and in the exclusive-lock set, a shared lock on another rid stays in the
\* shared-lock set, and at REPEATABLE_READ a LockRead that returns without
\* abort returns with the rid locked.
LockReadKeepsHeldLocks ==
  [][\A t \in Txns :
       (pc[t].op = "LockRead" \/ pc'[t].op = "LockRead") =>
         /\ \A r \in exclusive_lock_set[t] :
              HoldsGranted(request_queue, t, r, "EXCLUSIVE") =>
                /\ r \in exclusive_lock_set'[t]
                /\ HoldsGranted(request_queue', t, r, "EXCLUSIVE")
         /\ \A r \in shared_lock_set[t] :
              (pc[t].op = "LockRead" /\ r # pc[t].rid) => r \in shared_lock_set'[t]
         /\ ( /\ pc[t].op = "LockRead"
              /\ pc'[t] = Idle
              /\ iso[t] = "REPEATABLE_READ"
              /\ state'[t] # "ABORTED" ) =>
              pc[t].rid \in shared_lock_set'[t] \cup exclusive_lock_set'[t]]_vars

\* C40: whenever a transaction is not inside a lock-manager call, a rid is in
\* its shared-lock set exactly when the rid's queue holds a granted SHARED
\* request of it, and in its exclusive-lock set exactly when the queue holds
\* a granted EXCLUSIVE request of it.
LockSetsAgreeWithTable ==
  \A t \in Txns :
    pc[t] = Idle =>
      \A r \in Rids :
        /\ r \in shared_lock_set[t] <=> HoldsGranted(request_queue, t, r, "SHARED")
        /\ r \in exclusive_lock_set[t] <=> HoldsGranted(request_queue, t, r, "EXCLUSIVE")

=============================================================================
